---- MODULE Spec2Model ----
(***************************************************************************)
(* A model of the plugin discovery and tool-dispatch server of smcp.py.    *)
(*                                                                         *)
(* Text (Python str) is a TLA+ string; bytes are sequences of integers in  *)
(* 0..255.  A Python dict is a sequence of entries with distinct keys, in  *)
(* insertion (= iteration) order.                                          *)
(***************************************************************************)
EXTENDS Integers, Sequences, FiniteSets, TLC

VARIABLES
    phase,            \* "startup" until register_plugin_tools has returned, then "serving"
    plugins_dir,      \* the plugins root directory: [exists, entries], entries in iterdir() order
    environ,          \* os.environ: a sequence of [key, value]
    plugin_registry,  \* smcp.plugin_registry
    all_tools,        \* the all_tools list closed over by the two handlers
    metrics,          \* smcp.metrics (start_time left out)
    help_invoked,     \* the plugins get_plugin_help was run for, in order
    list_result,      \* what the last list_tools_handler call returned
    calls,            \* the call_tool_handler invocations, in order of arrival: one record each
    dotenv_file,      \* the .env file beside smcp.py: [exists, text]
    procs,            \* the plugin children that run a cli.py main(): call index -> [pc, locals]
    chain,            \* the BSC node the bsc and pancakeswap plugins talk to
    keystore,         \* plugins/signer/keystore: the label.json files, label -> content
    pid_file,         \* plugins/vibing/runtime.pid: [exists, pid]
    os_processes,     \* the runtime.py processes start_autonomous has spawned: pid -> state
    runtime           \* the VibingRuntime object of one runtime.py process

plugin_vars == <<procs, chain, keystore, pid_file, os_processes, runtime>>

vars == <<phase, plugins_dir, environ, plugin_registry, all_tools, metrics,
          help_invoked, list_result, calls, dotenv_file,
          procs, chain, keystore, pid_file, os_processes, runtime>>

----------------------------------------------------------------------------
(* Python str and list primitives *)

Range(s) == {s[i] : i \in 1..Len(s)}

Ch(s, i) == SubSeq(s, i, i)

\* the characters str.strip() and str.split() treat as whitespace
Whitespace == {" ", "\t", "\n", "\r", "\f"}

\* ch in s, for a one-character ch
Contains(s, ch) == \E i \in 1..Len(s) : Ch(s, i) = ch

\* s.startswith(p)
StartsWith(s, p) == Len(s) >= Len(p) /\ SubSeq(s, 1, Len(p)) = p

\* s.lstrip(), s.rstrip(), s.strip()
RECURSIVE LStrip(_)
LStrip(s) ==
    IF Len(s) > 0 /\ Ch(s, 1) \in Whitespace
    THEN LStrip(SubSeq(s, 2, Len(s)))
    ELSE s

RECURSIVE RStrip(_)
RStrip(s) ==
    IF Len(s) > 0 /\ Ch(s, Len(s)) \in Whitespace
    THEN RStrip(SubSeq(s, 1, Len(s) - 1))
    ELSE s

Strip(s) == RStrip(LStrip(s))

\* the index of the first occurrence of the character ch in s, 0 when there is none
RECURSIVE FindFrom(_, _, _)
FindFrom(s, ch, i) ==
    IF i > Len(s) THEN 0
    ELSE IF Ch(s, i) = ch THEN i
    ELSE FindFrom(s, ch, i + 1)

Find(s, ch) == FindFrom(s, ch, 1)

\* s.split(ch): every piece between separators, empty pieces kept
RECURSIVE Split(_, _)
Split(s, ch) ==
    LET i == Find(s, ch) IN
    IF i = 0 THEN <<s>>
    ELSE <<SubSeq(s, 1, i - 1)>> \o Split(SubSeq(s, i + 1, Len(s)), ch)

\* s.split(ch, 1): at most one split, at the first separator
SplitOnce(s, ch) ==
    LET i == Find(s, ch) IN
    IF i = 0 THEN <<s>>
    ELSE <<SubSeq(s, 1, i - 1), SubSeq(s, i + 1, Len(s))>>

\* the length of the leading run of non-whitespace characters of s
RECURSIVE WordLen(_, _)
WordLen(s, i) ==
    IF i > Len(s) \/ Ch(s, i) \in Whitespace THEN i - 1
    ELSE WordLen(s, i + 1)

\* s.split(): the maximal runs of non-whitespace characters
RECURSIVE SplitWs(_)
SplitWs(s) ==
    LET t == LStrip(s) IN
    IF t = "" THEN <<>>
    ELSE LET n == WordLen(t, 1) IN
         <<SubSeq(t, 1, n)>> \o SplitWs(SubSeq(t, n + 1, Len(t)))

\* sep.join(parts)
RECURSIVE Join(_, _)
Join(parts, sep) ==
    IF parts = <<>> THEN ""
    ELSE IF Len(parts) = 1 THEN parts[1]
    ELSE parts[1] \o sep \o Join(Tail(parts), sep)

----------------------------------------------------------------------------
(* dict helpers: a dict is a sequence of [key, value] with distinct keys *)

Keys(d) == {d[i].key : i \in 1..Len(d)}

HasKey(d, k) == k \in Keys(d)

Get(d, k) == (CHOOSE i \in 1..Len(d) : d[i].key = k)

Lookup(d, k) == d[Get(d, k)].value

\* os.getenv(k, default)
GetEnv(env, k, default) == IF HasKey(env, k) THEN Lookup(env, k) ELSE default

----------------------------------------------------------------------------
(* discover_plugins *)

\* the default of os.getenv("MCP_DISABLED_PLUGINS", ...)
DefaultDisabled == "botfather,devops"

\* [p.strip() for p in parts if p.strip()]
RECURSIVE StripNonEmpty(_)
StripNonEmpty(parts) ==
    IF parts = <<>> THEN <<>>
    ELSE (IF Strip(Head(parts)) # "" THEN <<Strip(Head(parts))>> ELSE <<>>)
         \o StripNonEmpty(Tail(parts))

\* the disabled_plugins list of discover_plugins
disabled_plugins(env) ==
    StripNonEmpty(Split(GetEnv(env, "MCP_DISABLED_PLUGINS", DefaultDisabled), ","))

\* str(plugin_dir / "cli.py")
CliPath(plugin_name) == "plugins/" \o plugin_name \o "/cli.py"

\* DiscoverStep with the deny-list test left out
DiscoverStep_NoSkip(plugins, e, disabled) ==
    IF e.is_dir /\ e.has_cli
    THEN Append(plugins, [key   |-> e.name,
                          value |-> [path |-> CliPath(e.name), commands |-> <<>>]])
    ELSE plugins

\* the body of the loop over plugins_dir.iterdir(): `plugins` after the entry e
DiscoverStep(plugins, e, disabled) ==
    IF e.is_dir
    THEN IF e.name \in Range(disabled)
         THEN plugins                                  \* continue
         ELSE IF e.has_cli
              THEN Append(plugins, [key   |-> e.name,
                                    value |-> [path |-> CliPath(e.name), commands |-> <<>>]])
              ELSE plugins
    ELSE plugins

RECURSIVE DiscoverLoop(_, _, _)
DiscoverLoop(entries, disabled, plugins) ==
    IF entries = <<>> THEN plugins
    ELSE DiscoverLoop(Tail(entries), disabled, DiscoverStep(plugins, Head(entries), disabled))

\* the dict discover_plugins returns for a plugins directory and an environment
discover_plugins(dir, env) ==
    IF ~dir.exists THEN <<>>
    ELSE DiscoverLoop(dir.entries, disabled_plugins(env), <<>>)

\* DiscoveredMetric counting the directory's entries instead of the plugins kept
DiscoveredMetric_CountsEntries(dir, env, old) ==
    IF ~dir.exists THEN old ELSE Len(dir.entries)

\* metrics["plugins_discovered"] after discover_plugins: the early return leaves it alone
DiscoveredMetric(dir, env, old) ==
    IF ~dir.exists THEN old ELSE Len(discover_plugins(dir, env))

----------------------------------------------------------------------------
(* get_plugin_help *)

\* the directory entry a plugin was discovered from
EntryOf(dir, plugin_name) ==
    dir.entries[CHOOSE i \in 1..Len(dir.entries) : dir.entries[i].name = plugin_name]

\* get_plugin_help without the test of the return code
get_plugin_help_AnyCode(dir, plugin_name) ==
    LET run == EntryOf(dir, plugin_name).help IN
    IF run.raises THEN "" ELSE run.stdout

\* subprocess.run([sys.executable, cli_path, "--help"], timeout=10): the entry's
\* `help` field is what that run does: it raises (timeout, OSError), or it ends
\* with a return code and a stdout
get_plugin_help(dir, plugin_name) ==
    LET run == EntryOf(dir, plugin_name).help IN
    IF run.raises THEN ""
    ELSE IF run.returncode = 0 THEN run.stdout
    ELSE ""

----------------------------------------------------------------------------
(* create_tool_from_plugin and the command scan of register_plugin_tools *)

\* tool_name = f"{plugin_name}_{command}"
ToolName(plugin_name, command) == plugin_name \o "_" \o command

\* tool_schemas: the hand-written schemas, in the order of the dict.  A property's
\* "type" is written as the sequence of its type names ("string" as <<"string">>),
\* an absent "enum" as <<>>, and a byte outside printable ASCII in a description
\* as "?".
tool_schemas ==
    <<[name |-> "signer_create-wallet",
      description |-> "Create a new wallet in the local keystore. Automatically enables BSC operations without exposing private key to LLM. Uses SIGNER_PASSWORD from environment for encryption. Returns wallet label and address only.",
      properties |-> 
        <<[key |-> "label", type |-> <<"string">>, enum |-> <<>>,
           description |-> "Unique label/name for the wallet"]>>,
      required |-> <<"label">>],
     [name |-> "signer_import-private-key",
      description |-> "Import an existing private key into local keystore. Automatically enables BSC operations without exposing private key to LLM. Uses SIGNER_PASSWORD from environment for encryption. (development only)",
      properties |-> 
        <<[key |-> "label", type |-> <<"string">>, enum |-> <<>>,
           description |-> "Unique label/name for the wallet"],
          [key |-> "private-key", type |-> <<"string">>, enum |-> <<>>,
           description |-> "Private key to import (hex format)"]>>,
      required |-> <<"label", "private-key">>],
     [name |-> "signer_list-wallets",
      description |-> "List all wallets in the local keystore. Returns array of wallets with labels and addresses.",
      properties |-> <<>>,
      required |-> <<>>],
     [name |-> "signer_get-address",
      description |-> "Get the address for a wallet by label",
      properties |-> 
        <<[key |-> "label", type |-> <<"string">>, enum |-> <<>>,
           description |-> "Wallet label to look up"]>>,
      required |-> <<"label">>],
     [name |-> "signer_sign-tx",
      description |-> "Sign a transaction and return the raw signed transaction hex. Uses SIGNER_PASSWORD from environment.",
      properties |-> 
        <<[key |-> "label", type |-> <<"string">>, enum |-> <<>>,
           description |-> "Wallet label to sign with"],
          [key |-> "tx", type |-> <<"string">>, enum |-> <<>>,
           description |-> "JSON transaction object to sign"]>>,
      required |-> <<"label", "tx">>],
     [name |-> "signer_send-tx",
      description |-> "Sign and broadcast a transaction to the blockchain, or broadcast a pre-signed raw transaction. Uses SIGNER_PASSWORD from environment.",
      properties |-> 
        <<[key |-> "label", type |-> <<"string">>, enum |-> <<>>,
           description |-> "Wallet label to sign with (not required if providing raw)"],
          [key |-> "tx", type |-> <<"string">>, enum |-> <<>>,
           description |-> "JSON transaction object to sign (not required if providing raw)"],
          [key |-> "raw", type |-> <<"string">>, enum |-> <<>>,
           description |-> "Pre-signed raw transaction hex (if already signed)"],
          [key |-> "chain", type |-> <<"string">>, enum |-> <<"mainnet", "testnet">>,
           description |-> "Which chain to broadcast to (default: mainnet)"]>>,
      required |-> <<>>],
     [name |-> "signer_sign-typed-data",
      description |-> "Sign EIP-712 typed data (for permit signatures, etc). Uses SIGNER_PASSWORD from environment.",
      properties |-> 
        <<[key |-> "label", type |-> <<"string">>, enum |-> <<>>,
           description |-> "Wallet label to sign with"],
          [key |-> "typed-data", type |-> <<"string">>, enum |-> <<>>,
           description |-> "JSON EIP-712 typed data to sign"]>>,
      required |-> <<"label", "typed-data">>],
     [name |-> "bsc_get-balance",
      description |-> "Get native BNB balance for an address on BSC",
      properties |-> 
        <<[key |-> "address", type |-> <<"string">>, enum |-> <<>>,
           description |-> "Wallet address to check (0x... format)"],
          [key |-> "chain", type |-> <<"string">>, enum |-> <<"mainnet", "testnet">>,
           description |-> "Which BSC network to query (default: mainnet)"]>>,
      required |-> <<"address">>],
     [name |-> "bsc_get-token-balance",
      description |-> "Get ERC-20 token balance for an address on BSC",
      properties |-> 
        <<[key |-> "address", type |-> <<"string">>, enum |-> <<>>,
           description |-> "Wallet address to check (0x... format)"],
          [key |-> "token", type |-> <<"string">>, enum |-> <<>>,
           description |-> "Token contract address (0x... format)"],
          [key |-> "chain", type |-> <<"string">>, enum |-> <<"mainnet", "testnet">>,
           description |-> "Which BSC network to query (default: mainnet)"]>>,
      required |-> <<"address", "token">>],
     [name |-> "bsc_allowance",
      description |-> "Get ERC-20 token allowance for owner/spender pair",
      properties |-> 
        <<[key |-> "token", type |-> <<"string">>, enum |-> <<>>,
           description |-> "Token contract address (0x... format)"],
          [key |-> "owner", type |-> <<"string">>, enum |-> <<>>,
           description |-> "Token owner address (0x... format)"],
          [key |-> "spender", type |-> <<"string">>, enum |-> <<>>,
           description |-> "Spender address to check allowance for (0x... format)"],
          [key |-> "chain", type |-> <<"string">>, enum |-> <<"mainnet", "testnet">>,
           description |-> "Which BSC network to query (default: mainnet)"]>>,
      required |-> <<"token", "owner", "spender">>],
     [name |-> "bsc_approve",
      description |-> "Approve ERC-20 token spender for a specific amount. Automatically uses your wallet's private key from environment - no credentials needed.",
      properties |-> 
        <<[key |-> "token", type |-> <<"string">>, enum |-> <<>>,
           description |-> "Token contract address (0x... format)"],
          [key |-> "spender", type |-> <<"string">>, enum |-> <<>>,
           description |-> "Spender address to approve (0x... format)"],
          [key |-> "amount", type |-> <<"string", "number">>, enum |-> <<>>,
           description |-> "Amount to approve in token's smallest unit (e.g., 1000000000000000000 for 1 token with 18 decimals)"],
          [key |-> "broadcast", type |-> <<"boolean">>, enum |-> <<>>,
           description |-> "Whether to broadcast transaction (default: true)"],
          [key |-> "gas-price-gwei", type |-> <<"number">>, enum |-> <<>>,
           description |-> "Gas price in Gwei (optional, uses network gas price if not provided)"],
          [key |-> "chain", type |-> <<"string">>, enum |-> <<"mainnet", "testnet">>,
           description |-> "Which BSC network to use (default: mainnet)"]>>,
      required |-> <<"token", "spender", "amount">>],
     [name |-> "bsc_send-native",
      description |-> "Send native BNB to an address. Automatically uses your wallet's private key from environment - no credentials needed.",
      properties |-> 
        <<[key |-> "to", type |-> <<"string">>, enum |-> <<>>,
           description |-> "Recipient address (0x... format)"],
          [key |-> "amount-eth", type |-> <<"string", "number">>, enum |-> <<>>,
           description |-> "Amount to send in BNB (e.g., 0.01 for 0.01 BNB)"],
          [key |-> "broadcast", type |-> <<"boolean">>, enum |-> <<>>,
           description |-> "Whether to broadcast transaction (default: true)"],
          [key |-> "gas-price-gwei", type |-> <<"number">>, enum |-> <<>>,
           description |-> "Gas price in Gwei (optional, uses network gas price if not provided)"],
          [key |-> "chain", type |-> <<"string">>, enum |-> <<"mainnet", "testnet">>,
           description |-> "Which BSC network to use (default: mainnet)"]>>,
      required |-> <<"to", "amount-eth">>],
     [name |-> "bsc_send-erc20",
      description |-> "Send ERC-20 tokens to an address. Automatically uses your wallet's private key from environment - no credentials needed.",
      properties |-> 
        <<[key |-> "token", type |-> <<"string">>, enum |-> <<>>,
           description |-> "Token contract address (0x... format)"],
          [key |-> "to", type |-> <<"string">>, enum |-> <<>>,
           description |-> "Recipient address (0x... format)"],
          [key |-> "amount", type |-> <<"string", "number">>, enum |-> <<>>,
           description |-> "Amount to send in token's smallest unit (e.g., 1000000000000000000 for 1 token with 18 decimals)"],
          [key |-> "broadcast", type |-> <<"boolean">>, enum |-> <<>>,
           description |-> "Whether to broadcast transaction (default: true)"],
          [key |-> "gas-price-gwei", type |-> <<"number">>, enum |-> <<>>,
           description |-> "Gas price in Gwei (optional, uses network gas price if not provided)"],
          [key |-> "chain", type |-> <<"string">>, enum |-> <<"mainnet", "testnet">>,
           description |-> "Which BSC network to use (default: mainnet)"]>>,
      required |-> <<"token", "to", "amount">>],
     [name |-> "bsc_gas-price",
      description |-> "Get current gas price on BSC network",
      properties |-> 
        <<[key |-> "chain", type |-> <<"string">>, enum |-> <<"mainnet", "testnet">>,
           description |-> "Which BSC network to query (default: mainnet)"]>>,
      required |-> <<>>],
     [name |-> "bsc_wrap-bnb",
      description |-> "Wrap native BNB to WBNB (Wrapped BNB). REQUIRED before adding liquidity on PancakeSwap with BNB pairs. Converts your native BNB balance to WBNB tokens. Automatically uses your wallet's private key from environment.",
      properties |-> 
        <<[key |-> "amount", type |-> <<"string", "number">>, enum |-> <<>>,
           description |-> "Amount of native BNB to wrap in wei (e.g., 1000000000000000000 for 1 BNB)"],
          [key |-> "broadcast", type |-> <<"boolean">>, enum |-> <<>>,
           description |-> "Whether to broadcast transaction (default: true)"],
          [key |-> "gas-price-gwei", type |-> <<"number">>, enum |-> <<>>,
           description |-> "Gas price in Gwei (optional)"],
          [key |-> "chain", type |-> <<"string">>, enum |-> <<"mainnet", "testnet">>,
           description |-> "Which BSC network to use (default: mainnet)"]>>,
      required |-> <<"amount">>],
     [name |-> "bsc_unwrap-bnb",
      description |-> "Unwrap WBNB to native BNB. Use this after selling tokens to convert WBNB back to spendable BNB. Automatically uses your wallet's private key from environment.",
      properties |-> 
        <<[key |-> "amount", type |-> <<"string", "number">>, enum |-> <<>>,
           description |-> "Amount of WBNB to unwrap in wei (e.g., 1000000000000000000 for 1 WBNB)"],
          [key |-> "broadcast", type |-> <<"boolean">>, enum |-> <<>>,
           description |-> "Whether to broadcast transaction (default: true)"],
          [key |-> "gas-price-gwei", type |-> <<"number">>, enum |-> <<>>,
           description |-> "Gas price in Gwei (optional)"],
          [key |-> "chain", type |-> <<"string">>, enum |-> <<"mainnet", "testnet">>,
           description |-> "Which BSC network to use (default: mainnet)"]>>,
      required |-> <<"amount">>],
     [name |-> "bsc_nonce",
      description |-> "Get transaction count (nonce) for an address on BSC",
      properties |-> 
        <<[key |-> "address", type |-> <<"string">>, enum |-> <<>>,
           description |-> "Wallet address to check (0x... format)"],
          [key |-> "chain", type |-> <<"string">>, enum |-> <<"mainnet", "testnet">>,
           description |-> "Which BSC network to query (default: mainnet)"]>>,
      required |-> <<"address">>],
     [name |-> "pancakeswap_get-pair-info",
      description |-> "Get PancakeSwap V2 pair address and reserves for a token pair. For BNB pairs, use WBNB: 0xBB4CdB9CBd36B01bD1cBaEBF2De08d9173bc095c (mainnet)",
      properties |-> 
        <<[key |-> "token-a", type |-> <<"string">>, enum |-> <<>>,
           description |-> "First token contract address (0x... format). For BNB, use WBNB: 0xBB4CdB9CBd36B01bD1cBaEBF2De08d9173bc095c"],
          [key |-> "token-b", type |-> <<"string">>, enum |-> <<>>,
           description |-> "Second token contract address (0x... format). For BNB, use WBNB: 0xBB4CdB9CBd36B01bD1cBaEBF2De08d9173bc095c"],
          [key |-> "chain", type |-> <<"string">>, enum |-> <<"mainnet", "testnet">>,
           description |-> "Which BSC network to query (default: mainnet)"]>>,
      required |-> <<"token-a", "token-b">>],
     [name |-> "pancakeswap_quote-out",
      description |-> "Quote output amount for a PancakeSwap swap given input amount. Useful for price checking before swapping. IMPORTANT: For BNB swaps, use WBNB address: 0xBB4CdB9CBd36B01bD1cBaEBF2De08d9173bc095c (mainnet) or 0xae13d989dac2f0debff460ac112a837c89baa7cd (testnet).",
      properties |-> 
        <<[key |-> "amount-in", type |-> <<"string", "number">>, enum |-> <<>>,
           description |-> "Input amount in token's smallest unit (e.g., wei for 18 decimals)"],
          [key |-> "token-in", type |-> <<"string">>, enum |-> <<>>,
           description |-> "Input token contract address (0x... format). For BNB, use WBNB: 0xBB4CdB9CBd36B01bD1cBaEBF2De08d9173bc095c"],
          [key |-> "token-out", type |-> <<"string">>, enum |-> <<>>,
           description |-> "Output token contract address (0x... format). For BNB, use WBNB: 0xBB4CdB9CBd36B01bD1cBaEBF2De08d9173bc095c"],
          [key |-> "path", type |-> <<"string">>, enum |-> <<>>,
           description |-> "JSON array of token addresses for multi-hop swap. For BNB swaps use WBNB (0xBB4CdB9CBd36B01bD1cBaEBF2De08d9173bc095c). Example: '[\"0xBB4CdB...\",\"0x06E08A9...\"]'"],
          [key |-> "chain", type |-> <<"string">>, enum |-> <<"mainnet", "testnet">>,
           description |-> "Which BSC network to query (default: mainnet)"]>>,
      required |-> <<"amount-in">>],
     [name |-> "pancakeswap_quote-in",
      description |-> "Quote required input amount for a PancakeSwap swap given desired output amount. Useful for exact output swaps. IMPORTANT: For BNB swaps, use WBNB address: 0xBB4CdB9CBd36B01bD1cBaEBF2De08d9173bc095c (mainnet) or 0xae13d989dac2f0debff460ac112a837c89baa7cd (testnet).",
      properties |-> 
        <<[key |-> "amount-out", type |-> <<"string", "number">>, enum |-> <<>>,
           description |-> "Desired output amount in token's smallest unit (e.g., wei for 18 decimals)"],
          [key |-> "token-in", type |-> <<"string">>, enum |-> <<>>,
           description |-> "Input token contract address (0x... format). For BNB, use WBNB: 0xBB4CdB9CBd36B01bD1cBaEBF2De08d9173bc095c"],
          [key |-> "token-out", type |-> <<"string">>, enum |-> <<>>,
           description |-> "Output token contract address (0x... format). For BNB, use WBNB: 0xBB4CdB9CBd36B01bD1cBaEBF2De08d9173bc095c"],
          [key |-> "path", type |-> <<"string">>, enum |-> <<>>,
           description |-> "JSON array of token addresses for multi-hop swap. For BNB swaps use WBNB (0xBB4CdB9CBd36B01bD1cBaEBF2De08d9173bc095c). Example: '[\"0xBB4CdB...\",\"0x06E08A9...\"]'"],
          [key |-> "chain", type |-> <<"string">>, enum |-> <<"mainnet", "testnet">>,
           description |-> "Which BSC network to query (default: mainnet)"]>>,
      required |-> <<"amount-out">>],
     [name |-> "pancakeswap_swap-auto",
      description |-> "RECOMMENDED: Smart swap with NATIVE BNB SUPPORT - When swapping BNB for tokens, this tool automatically uses native BNB (no wrapping needed!). Just put WBNB address (0xBB4CdB9CBd36B01bD1cBaEBF2De08d9173bc095c) as first token in path, and the tool detects it and uses your native BNB balance directly. For token???token swaps, handles approvals automatically. IMPORTANT: User has native BNB, not WBNB - always use this tool for BNB swaps so it uses native balance.",
      properties |-> 
        <<[key |-> "amount-in", type |-> <<"string", "number">>, enum |-> <<>>,
           description |-> "Exact input amount in token's smallest unit (e.g., wei for 18 decimals)"],
          [key |-> "path", type |-> <<"string">>, enum |-> <<>>,
           description |-> "JSON array of token addresses defining the swap path. For BNB use WBNB (0xBB4CdB9CBd36B01bD1cBaEBF2De08d9173bc095c on mainnet). Example: '[\"0xBB4CdB9CBd36B01bD1cBaEBF2De08d9173bc095c\",\"0x06E08A9BFB83e0e791Cd1f24535aDA4fA4094444\"]'"],
          [key |-> "to", type |-> <<"string">>, enum |-> <<>>,
           description |-> "Recipient address for output tokens (0x... format)"],
          [key |-> "slippage", type |-> <<"number">>, enum |-> <<>>,
           description |-> "Slippage tolerance percentage. DEFAULT VALUES: 1-3% stablecoins, 5-10% major tokens, 20-30% small-cap/meme tokens. WARNING: If previous swap failed with INSUFFICIENT_OUTPUT_AMOUNT, you MUST increase slippage by 10-20%. Small-cap tokens like ANIMUS typically need 25-30% minimum. This auto-calculates from FRESH quote."],
          [key |-> "amount-out-min", type |-> <<"string", "number">>, enum |-> <<>>,
           description |-> "IGNORED - This parameter is ignored. The tool always recalculates from fresh quote + slippage. Leave empty."],
          [key |-> "broadcast", type |-> <<"boolean">>, enum |-> <<>>,
           description |-> "Whether to broadcast transactions (default: true)"],
          [key |-> "gas-price-gwei", type |-> <<"number">>, enum |-> <<>>,
           description |-> "Gas price in Gwei (optional)"],
          [key |-> "chain", type |-> <<"string">>, enum |-> <<"mainnet", "testnet">>,
           description |-> "Which BSC network to use (default: mainnet)"]>>,
      required |-> <<"amount-in", "path", "to">>],
     [name |-> "pancakeswap_swap-exact-tokens",
      description |-> "Advanced: Manual swap for exact tokens. Requires manual approval and slippage calculation. Most users should use swap-auto instead. For BNB swaps, ALWAYS use WBNB: 0xBB4CdB9CBd36B01bD1cBaEBF2De08d9173bc095c (mainnet). Automatically uses your wallet's private key from environment.",
      properties |-> 
        <<[key |-> "amount-in", type |-> <<"string", "number">>, enum |-> <<>>,
           description |-> "Exact input amount in token's smallest unit (e.g., wei for 18 decimals)"],
          [key |-> "amount-out-min", type |-> <<"string", "number">>, enum |-> <<>>,
           description |-> "Minimum output amount for slippage protection. CRITICAL: Calculate this from quote-out result. For 1% slippage: quote_result * 0.99. For 5% slippage: quote_result * 0.95. Never use 0 (no protection). Recommended: 1-5% slippage for stable pairs, 5-10% for volatile pairs."],
          [key |-> "path", type |-> <<"string">>, enum |-> <<>>,
           description |-> "JSON array of token addresses defining the swap path. For BNB swaps MUST use WBNB (0xBB4CdB9CBd36B01bD1cBaEBF2De08d9173bc095c on mainnet). Example: '[\"0xBB4CdB9CBd36B01bD1cBaEBF2De08d9173bc095c\",\"0x06E08A9BFB83e0e791Cd1f24535aDA4fA4094444\"]'"],
          [key |-> "to", type |-> <<"string">>, enum |-> <<>>,
           description |-> "Recipient address for output tokens (0x... format)"],
          [key |-> "broadcast", type |-> <<"boolean">>, enum |-> <<>>,
           description |-> "Whether to broadcast transaction (default: true)"],
          [key |-> "gas-price-gwei", type |-> <<"number">>, enum |-> <<>>,
           description |-> "Gas price in Gwei (optional, uses network gas price if not provided)"],
          [key |-> "chain", type |-> <<"string">>, enum |-> <<"mainnet", "testnet">>,
           description |-> "Which BSC network to use (default: mainnet)"]>>,
      required |-> <<"amount-in", "path", "to">>],
     [name |-> "pancakeswap_add-liquidity-v2",
      description |-> "Add liquidity to a PancakeSwap V2 pair with AUTOMATIC APPROVAL HANDLING. This tool automatically checks and approves BOTH tokens (token-a and token-b) for the PancakeSwap router before adding liquidity. No manual approval needed! Automatically uses your wallet's private key from environment - no credentials needed. For BNB pairs, use WBNB: 0xBB4CdB9CBd36B01bD1cBaEBF2De08d9173bc095c (mainnet)",
      properties |-> 
        <<[key |-> "token-a", type |-> <<"string">>, enum |-> <<>>,
           description |-> "First token contract address (0x... format). For BNB, use WBNB: 0xBB4CdB9CBd36B01bD1cBaEBF2De08d9173bc095c"],
          [key |-> "token-b", type |-> <<"string">>, enum |-> <<>>,
           description |-> "Second token contract address (0x... format). For BNB, use WBNB: 0xBB4CdB9CBd36B01bD1cBaEBF2De08d9173bc095c"],
          [key |-> "amount-a-desired", type |-> <<"string", "number">>, enum |-> <<>>,
           description |-> "Desired amount of token A in smallest unit"],
          [key |-> "amount-b-desired", type |-> <<"string", "number">>, enum |-> <<>>,
           description |-> "Desired amount of token B in smallest unit"],
          [key |-> "amount-a-min", type |-> <<"string", "number">>, enum |-> <<>>,
           description |-> "Minimum amount of token A (slippage protection, default: 0)"],
          [key |-> "amount-b-min", type |-> <<"string", "number">>, enum |-> <<>>,
           description |-> "Minimum amount of token B (slippage protection, default: 0)"],
          [key |-> "to", type |-> <<"string">>, enum |-> <<>>,
           description |-> "Recipient address for LP tokens (0x... format)"],
          [key |-> "broadcast", type |-> <<"boolean">>, enum |-> <<>>,
           description |-> "Whether to broadcast transaction (default: true)"],
          [key |-> "gas-price-gwei", type |-> <<"number">>, enum |-> <<>>,
           description |-> "Gas price in Gwei (optional)"],
          [key |-> "chain", type |-> <<"string">>, enum |-> <<"mainnet", "testnet">>,
           description |-> "Which BSC network to use (default: mainnet)"]>>,
      required |-> <<"token-a", "token-b", "amount-a-desired", "amount-b-desired", "to">>],
     [name |-> "pancakeswap_remove-liquidity-v2",
      description |-> "Remove liquidity from a PancakeSwap V2 pair. Automatically uses your wallet's private key from environment - no credentials needed. For BNB pairs, use WBNB: 0xBB4CdB9CBd36B01bD1cBaEBF2De08d9173bc095c (mainnet)",
      properties |-> 
        <<[key |-> "token-a", type |-> <<"string">>, enum |-> <<>>,
           description |-> "First token contract address (0x... format). For BNB, use WBNB: 0xBB4CdB9CBd36B01bD1cBaEBF2De08d9173bc095c"],
          [key |-> "token-b", type |-> <<"string">>, enum |-> <<>>,
           description |-> "Second token contract address (0x... format). For BNB, use WBNB: 0xBB4CdB9CBd36B01bD1cBaEBF2De08d9173bc095c"],
          [key |-> "liquidity", type |-> <<"string", "number">>, enum |-> <<>>,
           description |-> "Amount of LP tokens to burn"],
          [key |-> "amount-a-min", type |-> <<"string", "number">>, enum |-> <<>>,
           description |-> "Minimum amount of token A to receive (slippage protection, default: 0)"],
          [key |-> "amount-b-min", type |-> <<"string", "number">>, enum |-> <<>>,
           description |-> "Minimum amount of token B to receive (slippage protection, default: 0)"],
          [key |-> "to", type |-> <<"string">>, enum |-> <<>>,
           description |-> "Recipient address for withdrawn tokens (0x... format)"],
          [key |-> "broadcast", type |-> <<"boolean">>, enum |-> <<>>,
           description |-> "Whether to broadcast transaction (default: true)"],
          [key |-> "gas-price-gwei", type |-> <<"number">>, enum |-> <<>>,
           description |-> "Gas price in Gwei (optional)"],
          [key |-> "chain", type |-> <<"string">>, enum |-> <<"mainnet", "testnet">>,
           description |-> "Which BSC network to use (default: mainnet)"]>>,
      required |-> <<"token-a", "token-b", "liquidity", "to">>],
     [name |-> "coinmarketcap_get-price",
      description |-> "Get latest price and comprehensive market data for any cryptocurrency from CoinMarketCap. Returns price, volume, market cap, price changes (1h/24h/7d/30d/60d/90d), supply data, rank, and more.",
      properties |-> 
        <<[key |-> "symbol", type |-> <<"string">>, enum |-> <<>>,
           description |-> "Cryptocurrency symbol (e.g., BTC, ETH, BNB). Use this OR slug, not both."],
          [key |-> "slug", type |-> <<"string">>, enum |-> <<>>,
           description |-> "Cryptocurrency slug (e.g., bitcoin, ethereum). Use this OR symbol, not both."],
          [key |-> "convert", type |-> <<"string">>, enum |-> <<>>,
           description |-> "Currency to convert to (default: USD). Examples: USD, EUR, BTC"]>>,
      required |-> <<>>],
     [name |-> "coinmarketcap_get-info",
      description |-> "Get comprehensive information about any cryptocurrency including description, website, social links, contract addresses, platform info, tags, and full market data. Most detailed tool for token research.",
      properties |-> 
        <<[key |-> "symbol", type |-> <<"string">>, enum |-> <<>>,
           description |-> "Cryptocurrency symbol (e.g., BTC, ETH, BNB). Use this OR slug, not both."],
          [key |-> "slug", type |-> <<"string">>, enum |-> <<>>,
           description |-> "Cryptocurrency slug (e.g., bitcoin, ethereum). Use this OR symbol, not both."],
          [key |-> "convert", type |-> <<"string">>, enum |-> <<>>,
           description |-> "Currency to convert to for price data (default: USD). Examples: USD, EUR, BTC"]>>,
      required |-> <<>>],
     [name |-> "coinmarketcap_search",
      description |-> "Search for cryptocurrencies by name or symbol on CoinMarketCap.",
      properties |-> 
        <<[key |-> "query", type |-> <<"string">>, enum |-> <<>>,
           description |-> "Search query (cryptocurrency name or symbol)"],
          [key |-> "limit", type |-> <<"string", "number">>, enum |-> <<>>,
           description |-> "Maximum number of results to return (default: 10)"]>>,
      required |-> <<"query">>],
     [name |-> "coinmarketcap_global-metrics",
      description |-> "Get global cryptocurrency market metrics including total market cap, volume, and BTC dominance.",
      properties |-> 
        <<[key |-> "convert", type |-> <<"string">>, enum |-> <<>>,
           description |-> "Currency to convert to (default: USD). Examples: USD, EUR, BTC"]>>,
      required |-> <<>>]>>

\* description = f"Execute {plugin_name} {command} command"
GenericDescription(plugin_name, command) ==
    "Execute " \o plugin_name \o " " \o command \o " command"

\* tool_name in tool_schemas
InSchemas(tool_name) == \E i \in 1..Len(tool_schemas) : tool_schemas[i].name = tool_name

\* tool_schemas[tool_name]
SchemaDef(tool_name) ==
    tool_schemas[CHOOSE i \in 1..Len(tool_schemas) : tool_schemas[i].name = tool_name]

\* the fallback Tool for a name that is not in tool_schemas
GenericTool(plugin_name, command) ==
    [name |-> ToolName(plugin_name, command), plugin |-> plugin_name, command |-> command,
     description |-> GenericDescription(plugin_name, command),
     inputSchema |-> [type |-> "object", properties |-> <<>>, required |-> <<>>,
                      additionalProperties |-> TRUE]]

\* create_tool_from_plugin without the lookup in tool_schemas
create_tool_from_plugin_AlwaysGeneric(plugin_name, command) ==
    GenericTool(plugin_name, command)

\* create_tool_from_plugin with a required name the fallback schema does not declare
create_tool_from_plugin_GhostRequired(plugin_name, command) ==
    IF InSchemas(ToolName(plugin_name, command))
    THEN [GenericTool(plugin_name, command) EXCEPT
             !.description = SchemaDef(ToolName(plugin_name, command)).description,
             !.inputSchema = [type |-> "object",
                              properties |-> SchemaDef(ToolName(plugin_name, command)).properties,
                              required |-> SchemaDef(ToolName(plugin_name, command)).required,
                              additionalProperties |-> FALSE]]
    ELSE [GenericTool(plugin_name, command) EXCEPT !.inputSchema.required = <<"input">>]

\* the Tool create_tool_from_plugin returns; plugin and command record what it was
\* built from
create_tool_from_plugin(plugin_name, command) ==
    LET tool_name == ToolName(plugin_name, command) IN
    IF InSchemas(tool_name)
    THEN LET schema_def == SchemaDef(tool_name) IN
         [name |-> tool_name, plugin |-> plugin_name, command |-> command,
          description |-> schema_def.description,
          inputSchema |-> [type |-> "object",
                           properties |-> schema_def.properties,
                           required |-> schema_def.required,
                           additionalProperties |-> FALSE]]
    ELSE GenericTool(plugin_name, command)

\* the first tokens the scan refuses as command names
\* ReservedTokens with no word excluded
ReservedTokens_None == {}

ReservedTokens == {"usage:", "options:", "Available", "Examples:"}

\* the body of `for line in lines`: st = [in_commands_section, commands]
ScanLine(st, line) ==
    IF StartsWith(Strip(line), "Available commands:")
    THEN [st EXCEPT !.in_commands_section = TRUE]
    ELSE IF st.in_commands_section
    THEN IF Strip(line) = "" \/ StartsWith(Strip(line), "Examples")
         THEN [st EXCEPT !.in_commands_section = FALSE]
         ELSE IF StartsWith(line, "  ")
              THEN LET parts == SplitWs(Strip(line)) IN
                   IF parts # <<>> /\ parts[1] \notin ReservedTokens
                   THEN [st EXCEPT !.commands = Append(@, parts[1])]
                   ELSE st
              ELSE st
    ELSE st

RECURSIVE ScanLines(_, _)
ScanLines(st, lines) ==
    IF lines = <<>> THEN st
    ELSE ScanLines(ScanLine(st, Head(lines)), Tail(lines))

\* the commands register_plugin_tools creates tools for, from one help text
ExtractCommands(help_text) ==
    ScanLines([in_commands_section |-> FALSE, commands |-> <<>>],
              Split(help_text, "\n")).commands

RECURSIVE ToolsOf(_, _)
ToolsOf(plugin_name, commands) ==
    IF commands = <<>> THEN <<>>
    ELSE <<create_tool_from_plugin(plugin_name, Head(commands))>>
         \o ToolsOf(plugin_name, Tail(commands))

\* all_tools after the loop over plugin_registry.items()
RECURSIVE RegisterLoop(_, _)
RegisterLoop(dir, registry) ==
    IF registry = <<>> THEN <<>>
    ELSE ToolsOf(Head(registry).key,
                 ExtractCommands(get_plugin_help(dir, Head(registry).key)))
         \o RegisterLoop(dir, Tail(registry))

RECURSIVE KeySeq(_)
KeySeq(d) == IF d = <<>> THEN <<>> ELSE <<Head(d).key>> \o KeySeq(Tail(d))

----------------------------------------------------------------------------
(* bytes and text: bytes.decode() of the captured output *)

AsciiUpper == " !\"#$%&'()*+,-./0123456789:;<=>?@ABCDEFGHIJKLMNOPQRSTUVWXYZ[\\]^_"
AsciiLower == "abcdefghijklmnopqrstuvwxyz{|}~"

\* the ASCII bytes the model gives a character to (the backquote, 96, is left out)
AsciiBytes == {9, 10, 12, 13} \cup (32..95) \cup (97..126)

\* chr(b) for an ASCII byte
Chr(b) ==
    IF b = 9 THEN "\t"
    ELSE IF b = 10 THEN "\n"
    ELSE IF b = 12 THEN "\f"
    ELSE IF b = 13 THEN "\r"
    ELSE IF b < 96 THEN Ch(AsciiUpper, b - 31)
    ELSE Ch(AsciiLower, b - 96)

\* ord(c), and text.encode() for ASCII text: how the outputs below are written
Ord(c) == CHOOSE b \in AsciiBytes : Chr(b) = c

\* text.encode(), one half of the text after the other
RECURSIVE Encode(_)
Encode(text) ==
    IF text = "" THEN <<>>
    ELSE IF Len(text) = 1 THEN <<Ord(text)>>
    ELSE LET h == Len(text) \div 2 IN
         Encode(SubSeq(text, 1, h)) \o Encode(SubSeq(text, h + 1, Len(text)))

\* whether bytes.decode() returns: every byte is ASCII.  Multi-byte UTF-8 sequences
\* are not modelled; the one non-ASCII byte the outputs use is 0xFF, which no UTF-8
\* text contains, so decode() raises UnicodeDecodeError on it.
DecodeOk(bytes) == \A i \in 1..Len(bytes) : bytes[i] < 128

RECURSIVE Decode(_)
Decode(bytes) ==
    IF bytes = <<>> THEN ""
    ELSE IF Len(bytes) = 1 THEN Chr(bytes[1])
    ELSE LET h == Len(bytes) \div 2 IN
         Decode(SubSeq(bytes, 1, h)) \o Decode(SubSeq(bytes, h + 1, Len(bytes)))

----------------------------------------------------------------------------
(* argument values and str(value) *)

BoolV(b) == [t |-> "bool", b |-> b, n |-> 0, s |-> ""]
IntV(n)  == [t |-> "int",  b |-> FALSE, n |-> n, s |-> ""]
StrV(s)  == [t |-> "str",  b |-> FALSE, n |-> 0, s |-> s]
NoneV    == [t |-> "none", b |-> FALSE, n |-> 0, s |-> ""]

Digit(d) == Ch("0123456789", d + 1)

\* str(n) for n >= 0
RECURSIVE NatToStr(_)
NatToStr(n) ==
    IF n < 10 THEN Digit(n)
    ELSE NatToStr(n \div 10) \o Digit(n % 10)

\* str(value)
PyStr(value) ==
    IF value.t = "int" THEN (IF value.n < 0 THEN "-" \o NatToStr(0 - value.n) ELSE NatToStr(value.n))
    ELSE IF value.t = "str" THEN value.s
    ELSE IF value.t = "bool" THEN (IF value.b THEN "True" ELSE "False")
    ELSE "None"

----------------------------------------------------------------------------
(* execute_plugin_tool, up to the creation of the child process *)

sys_executable == "python"

\* HasSeparator with the test left out: every name goes on to the split
HasSeparator_Dropped(tool_name) == TRUE

\* '_' in tool_name
HasSeparator(tool_name) == Contains(tool_name, "_")

\* tool_name.split('_', 1)
ParseToolName(tool_name) == SplitOnce(tool_name, "_")

\* letta_params with nothing reserved
letta_params_Empty == {}

letta_params == {"request_heartbeat"}

UpperCase == "ABCDEFGHIJKLMNOPQRSTUVWXYZ"
LowerCase == "abcdefghijklmnopqrstuvwxyz"

\* camelCase to kebab-case: each upper-case letter becomes "-" and its lower case
RECURSIVE Kebab(_)
Kebab(key) ==
    IF key = "" THEN ""
    ELSE LET c == Ch(key, 1)
             u == Find(UpperCase, c)
         IN (IF u = 0 THEN c ELSE "-" \o Ch(LowerCase, u)) \o Kebab(SubSeq(key, 2, Len(key)))

\* FlagOf with the key converted to kebab-case
FlagOf_Kebab(key) == "--" \o Kebab(key)

\* f"--{key}"
FlagOf(key) == "--" \o key

\* ArgStep without the isinstance(value, bool) case: a boolean goes the way of
\* every other value
ArgStep_NoBoolCase(cmd_args, key, value) ==
    IF key \in letta_params THEN cmd_args
    ELSE cmd_args \o <<FlagOf(key), PyStr(value)>>

\* the body of `for key, value in arguments.items()`: cmd_args after one item
ArgStep(cmd_args, key, value) ==
    IF key \in letta_params THEN cmd_args                        \* continue
    ELSE IF value.t = "bool"
         THEN IF value.b THEN Append(cmd_args, FlagOf(key)) ELSE cmd_args
         ELSE cmd_args \o <<FlagOf(key), PyStr(value)>>

RECURSIVE ArgLoop(_, _)
ArgLoop(cmd_args, arguments) ==
    IF arguments = <<>> THEN cmd_args
    ELSE ArgLoop(ArgStep(cmd_args, Head(arguments).key, Head(arguments).value),
                 Tail(arguments))

\* cmd_args as handed to asyncio.create_subprocess_exec
BuildCmdArgs(cli_path, command, arguments) ==
    ArgLoop(<<sys_executable, cli_path, command>>, arguments)

----------------------------------------------------------------------------
(* the .env file: load_dotenv (smcp.py) and _update_env_file (signer/cli.py) *)

\* the lines of a text as `for line in f` yields them: each keeps its "\n"
RECURSIVE FileLines(_)
FileLines(text) ==
    IF text = "" THEN <<>>
    ELSE LET i == Find(text, "\n") IN
         IF i = 0 THEN <<text>>
         ELSE <<SubSeq(text, 1, i)>> \o FileLines(SubSeq(text, i + 1, Len(text)))

\* the loop of _update_env_file over the existing lines: [lines, key_found]
RECURSIVE UpdateLines(_, _, _, _)
UpdateLines(lines, key, value, acc) ==
    IF lines = <<>> THEN acc
    ELSE IF StartsWith(Strip(Head(lines)), key \o "=")
         THEN UpdateLines(Tail(lines), key, value,
                          [lines |-> Append(acc.lines, key \o "=" \o value \o "\n"),
                           key_found |-> TRUE])
         ELSE UpdateLines(Tail(lines), key, value,
                          [acc EXCEPT !.lines = Append(@, Head(lines))])

\* the .env file after _update_env_file(key, value)
update_env_file(file, key, value) ==
    LET read == IF file.exists
                THEN UpdateLines(FileLines(file.text), key, value,
                                 [lines |-> <<>>, key_found |-> FALSE])
                ELSE [lines |-> <<>>, key_found |-> FALSE]
        existing_lines == IF read.key_found THEN read.lines
                          ELSE Append(read.lines, key \o "=" \o value \o "\n")
    IN [exists |-> TRUE, text |-> Join(existing_lines, "")]

\* env with env[k] = v
SetItem(env, k, v) ==
    IF HasKey(env, k) THEN [env EXCEPT ![Get(env, k)].value = v]
    ELSE Append(env, [key |-> k, value |-> v])

\* the bindings python-dotenv reads from the lines KEY=VALUE of a file, a later
\* binding of a key replacing an earlier one
RECURSIVE DotenvValues(_, _)
DotenvValues(lines, acc) ==
    IF lines = <<>> THEN acc
    ELSE LET line == Strip(Head(lines))
             i == Find(line, "=")
         IN IF i = 0 \/ StartsWith(line, "#")
            THEN DotenvValues(Tail(lines), acc)
            ELSE DotenvValues(Tail(lines),
                              SetItem(acc, Strip(SubSeq(line, 1, i - 1)),
                                      Strip(SubSeq(line, i + 1, Len(line)))))

RECURSIVE SetAll(_, _, _)
SetAll(env, values, override) ==
    IF values = <<>> THEN env
    ELSE IF HasKey(env, Head(values).key) /\ ~override
         THEN SetAll(env, Tail(values), override)
         ELSE SetAll(SetItem(env, Head(values).key, Head(values).value),
                     Tail(values), override)

\* os.environ after load_dotenv(path, override=override)
load_dotenv(env, file, override) ==
    IF ~file.exists THEN env
    ELSE SetAll(env, DotenvValues(FileLines(file.text), <<>>), override)

----------------------------------------------------------------------------
(* the texts execute_plugin_tool returns *)

InvalidNameText(tool_name) ==
    "Invalid tool name format: " \o tool_name \o ". Expected 'plugin_command'"

PluginNotFoundText(plugin_name) == "Plugin '" \o plugin_name \o "' not found"

\* f"Error executing tool {tool_name}: {e}"
ExceptionText(tool_name, e) == "Error executing tool " \o tool_name \o ": " \o e

\* FailureText without the preference for stderr
FailureText_StdoutFirst(stdout_text, stderr_text, returncode) ==
    LET error_msg == IF stdout_text # "" THEN stdout_text ELSE stderr_text IN
    "Error: " \o (IF error_msg # "" THEN error_msg
                  ELSE "Command failed with return code " \o PyStr(IntV(returncode)))

\* the error text of the non-zero branch
FailureText(stdout_text, stderr_text, returncode) ==
    LET error_msg == IF stderr_text # "" THEN stderr_text ELSE stdout_text IN
    "Error: " \o (IF error_msg # "" THEN error_msg
                  ELSE "Command failed with return code " \o PyStr(IntV(returncode)))

\* the messages of the exceptions the model raises
UnpackError == "not enough values to unpack (expected 2, got 1)"
SpawnError  == "[Errno 12] Cannot allocate memory"
DecodeError == "'utf-8' codec can't decode byte 0xff"

\* WalletTools as every tool of the signer plugin that the requests name
WalletTools_AnySigner ==
    {"signer_create-wallet", "signer_import-private-key", "signer_list-wallets"}

\* the tools whose success reloads .env
WalletTools == {"signer_create-wallet", "signer_import-private-key"}

----------------------------------------------------------------------------
(* one call_tool_handler invocation *)

\* pc: "creating" (awaiting create_subprocess_exec), "running" (awaiting
\* communicate, child alive), "exited" (awaiting communicate, child ended),
\* "returned".  outcome names the return statement taken.  registry_consulted,
\* spawned and exited record what the call has done so far.
NewCall(tool_name, arguments) ==
    [pc |-> "returned", tool_name |-> tool_name, arguments |-> arguments,
     plugin_name |-> "", command |-> "", registry_consulted |-> FALSE,
     cmd_args |-> <<>>, env |-> <<>>, spawned |-> FALSE,
     exited |-> FALSE, returncode |-> 0, stdout |-> <<>>, stderr |-> <<>>,
     outcome |-> "", result |-> ""]

\* execute_plugin_tool from its entry to its first await or an earlier return
BeginCall(tool_name, arguments, registry, env) ==
    LET c == NewCall(tool_name, arguments) IN
    IF ~HasSeparator(tool_name)
    THEN [c EXCEPT !.outcome = "invalid_name", !.result = InvalidNameText(tool_name)]
    ELSE LET parts == ParseToolName(tool_name) IN
         IF Len(parts) # 2
         THEN [c EXCEPT !.outcome = "exception",
                        !.result = ExceptionText(tool_name, UnpackError)]
         ELSE IF ~HasKey(registry, parts[1])
         THEN [c EXCEPT !.plugin_name = parts[1], !.command = parts[2],
                        !.registry_consulted = TRUE,
                        !.outcome = "plugin_not_found",
                        !.result = PluginNotFoundText(parts[1])]
         ELSE [c EXCEPT !.plugin_name = parts[1], !.command = parts[2],
                        !.registry_consulted = TRUE,
                        !.cmd_args = BuildCmdArgs(Lookup(registry, parts[1]).path,
                                                  parts[2], arguments),
                        !.env = env,
                        !.pc = "creating"]

\* OutputText without the strip()
OutputText_NoStrip(bytes) == Decode(bytes)

\* stdout.decode().strip()
OutputText(bytes) == CHOOSE r \in {Strip(text) : text \in {Decode(bytes)}} : TRUE

\* execute_plugin_tool from the return of communicate() to its return
FinishCall(c) ==
    IF ~DecodeOk(c.stdout) \/ ~DecodeOk(c.stderr)
    THEN [c EXCEPT !.pc = "returned", !.outcome = "exception",
                   !.result = ExceptionText(c.tool_name, DecodeError)]
    ELSE IF c.returncode = 0
    THEN [c EXCEPT !.pc = "returned", !.outcome = "success",
                   !.result = OutputText(c.stdout)]
    ELSE [c EXCEPT !.pc = "returned", !.outcome = "failed",
                   !.result = FailureText(OutputText(c.stdout), OutputText(c.stderr),
                                          c.returncode)]

\* CountOutcome without the increment of the except clause
CountOutcome_ExceptUncounted(m, outcome) ==
    IF outcome = "success" THEN [m EXCEPT !.tool_calls_success = @ + 1]
    ELSE IF outcome = "failed" THEN [m EXCEPT !.tool_calls_error = @ + 1]
    ELSE m

\* CountOutcome as a read-modify-write that loses every increment after the first
CountOutcome_LostUpdate(m, outcome) ==
    IF outcome = "success" THEN [m EXCEPT !.tool_calls_success = 1]
    ELSE IF outcome \in {"failed", "exception"} THEN [m EXCEPT !.tool_calls_error = 1]
    ELSE m

\* the counters after a return of execute_plugin_tool by the given statement
CountOutcome(m, outcome) ==
    IF outcome = "success" THEN [m EXCEPT !.tool_calls_success = @ + 1]
    ELSE IF outcome \in {"failed", "exception"} THEN [m EXCEPT !.tool_calls_error = @ + 1]
    ELSE m

\* os.environ after the success branch
ReloadEnv(env, file, tool_name) ==
    IF tool_name \in WalletTools THEN load_dotenv(env, file, TRUE) ELSE env

----------------------------------------------------------------------------
(* the plugins' world before any plugin child has run *)

\* a node that knows one account with no transaction yet and no allowance
Chain0 == [tx_count |-> 0, pending |-> <<>>, mined |-> <<>>, allowance |-> <<>>]

NoPidFile == [exists |-> FALSE, pid |-> 0]

\* a VibingRuntime that was not constructed
NoRuntime == [constructed |-> FALSE]

PluginsIdle ==
    /\ procs = <<>>
    /\ chain = Chain0
    /\ keystore = <<>>
    /\ pid_file = NoPidFile
    /\ os_processes = <<>>
    /\ runtime = NoRuntime

----------------------------------------------------------------------------
(* bounds *)

MaxCalls == 2      \* call-tool requests per run of the dispatch specification
MaxDirs  == 2      \* entries of the plugins directory
MaxArgs  == 3      \* items of an arguments mapping

----------------------------------------------------------------------------
(* actions *)

Metrics0 ==
    [plugins_discovered |-> 0, tools_registered |-> 0,
     tool_calls_total |-> 0, tool_calls_success |-> 0, tool_calls_error |-> 0]

\* main(), from load_dotenv(env_path) to the end of register_plugin_tools(server)
main ==
    /\ phase = "startup"
    /\ LET env   == load_dotenv(environ, dotenv_file, FALSE)
           found == discover_plugins(plugins_dir, env)
           tools == RegisterLoop(plugins_dir, found)
       IN /\ environ' = env
          /\ plugin_registry' = found
          /\ all_tools' = tools
          /\ help_invoked' = KeySeq(found)
          /\ metrics' = [metrics EXCEPT
                           !.plugins_discovered = DiscoveredMetric(plugins_dir, env, @),
                           !.tools_registered = @ + Len(tools)]
    /\ phase' = "serving"
    /\ UNCHANGED <<plugins_dir, dotenv_file, list_result, calls>>
    /\ UNCHANGED plugin_vars

list_tools_handler ==
    /\ phase = "serving"
    /\ list_result' = [returned |-> TRUE, tools |-> all_tools]
    /\ UNCHANGED <<phase, plugins_dir, environ, plugin_registry, all_tools, metrics,
                   help_invoked, calls, dotenv_file>>
    /\ UNCHANGED plugin_vars

\* call_tool_handler run to completion before the next request is accepted
call_tool_handler_Serial(names, argsets, limit) ==
    /\ phase = "serving"
    /\ Len(calls) < limit
    /\ \A j \in 1..Len(calls) : calls[j].pc = "returned"
    /\ \E tool_name \in names, arguments \in argsets :
          LET c == BeginCall(tool_name, arguments, plugin_registry, environ) IN
          /\ calls' = Append(calls, c)
          /\ metrics' = IF c.pc = "returned"
                        THEN CountOutcome([metrics EXCEPT !.tool_calls_total = @ + 1],
                                          c.outcome)
                        ELSE [metrics EXCEPT !.tool_calls_total = @ + 1]
    /\ UNCHANGED <<phase, plugins_dir, environ, plugin_registry, all_tools,
                   help_invoked, list_result, dotenv_file>>
    /\ UNCHANGED plugin_vars

\* call_tool_handler, to the first await of execute_plugin_tool or its earlier return
call_tool_handler(names, argsets, limit) ==
    /\ phase = "serving"
    /\ Len(calls) < limit
    /\ \E tool_name \in names, arguments \in argsets :
          LET c == BeginCall(tool_name, arguments, plugin_registry, environ) IN
          /\ calls' = Append(calls, c)
          /\ metrics' = IF c.pc = "returned"
                        THEN CountOutcome([metrics EXCEPT !.tool_calls_total = @ + 1],
                                          c.outcome)
                        ELSE [metrics EXCEPT !.tool_calls_total = @ + 1]
    /\ UNCHANGED <<phase, plugins_dir, environ, plugin_registry, all_tools,
                   help_invoked, list_result, dotenv_file>>
    /\ UNCHANGED plugin_vars

\* await asyncio.create_subprocess_exec(...) returns a process, or raises
create_subprocess_exec(i) ==
    /\ calls[i].pc = "creating"
    /\ \/ /\ calls' = [calls EXCEPT ![i].pc = "running", ![i].spawned = TRUE]
          /\ UNCHANGED metrics
       \/ /\ calls' = [calls EXCEPT ![i].pc = "returned", ![i].outcome = "exception",
                                    ![i].result = ExceptionText(calls[i].tool_name, SpawnError)]
          /\ metrics' = CountOutcome(metrics, "exception")
    /\ UNCHANGED <<phase, plugins_dir, environ, plugin_registry, all_tools,
                   help_invoked, list_result, dotenv_file>>
    /\ UNCHANGED plugin_vars

\* whether the child is signer/cli.py running create_wallet or import_private_key
IsWalletChild(cmd_args) ==
    /\ cmd_args[2] = CliPath("signer")
    /\ cmd_args[3] \in {"create-wallet", "import-private-key"}

\* the key a wallet child writes to .env
PrivateKeys == {"0xk1"}

\* the child of call i ends with one of the given [returncode, stdout, stderr] and
\* the event loop's child watcher collects its exit status, whether the call still
\* awaits it or was cancelled; a wallet child that exits 0 has run _update_env_file
process_exit(i, exits) ==
    /\ calls[i].pc \in {"running", "cancelled"}
    /\ calls[i].spawned /\ ~calls[i].exited
    /\ \E x \in exits, k \in PrivateKeys :
          /\ calls' = [calls EXCEPT ![i].pc = IF @ = "running" THEN "exited" ELSE @,
                                    ![i].exited = TRUE,
                                    ![i].returncode = x.returncode,
                                    ![i].stdout = x.stdout, ![i].stderr = x.stderr]
          /\ dotenv_file' = IF IsWalletChild(calls[i].cmd_args) /\ x.returncode = 0
                            THEN update_env_file(dotenv_file, "BSC_PRIVATE_KEY", k)
                            ELSE dotenv_file
    /\ UNCHANGED <<phase, plugins_dir, environ, plugin_registry, all_tools, metrics,
                   help_invoked, list_result>>
    /\ UNCHANGED plugin_vars

\* communicate(i) with the registry and the catalogue rebuilt empty on return
communicate_Rebuilds(i) ==
    /\ calls[i].pc = "exited"
    /\ \E c \in {FinishCall(calls[i])} :
       /\ calls' = [calls EXCEPT ![i] = c]
       /\ metrics' = CountOutcome(metrics, c.outcome)
       /\ environ' = IF c.outcome = "success"
                     THEN ReloadEnv(environ, dotenv_file, c.tool_name)
                     ELSE environ
    /\ plugin_registry' = <<>>
    /\ all_tools' = <<>>
    /\ UNCHANGED <<phase, plugins_dir, help_invoked, list_result, dotenv_file>>
    /\ UNCHANGED plugin_vars

\* await process.communicate() returns and execute_plugin_tool runs to its return
communicate(i) ==
    /\ calls[i].pc = "exited"
    /\ \E c \in {FinishCall(calls[i])} :
       /\ calls' = [calls EXCEPT ![i] = c]
       /\ metrics' = CountOutcome(metrics, c.outcome)
       /\ environ' = IF c.outcome = "success"
                     THEN ReloadEnv(environ, dotenv_file, c.tool_name)
                     ELSE environ
    /\ UNCHANGED <<phase, plugins_dir, plugin_registry, all_tools,
                   help_invoked, list_result, dotenv_file>>
    /\ UNCHANGED plugin_vars

\* cancel(i) with the child killed as the call is cancelled
cancel_Kill(i) ==
    /\ calls[i].pc \in {"creating", "running", "exited"}
    /\ calls' = [calls EXCEPT ![i].pc = "cancelled", ![i].outcome = "cancelled",
                              ![i].exited = calls[i].spawned,
                              ![i].returncode = IF calls[i].spawned /\ ~calls[i].exited
                                                THEN 0 - 9 ELSE @]
    /\ UNCHANGED <<phase, plugins_dir, environ, plugin_registry, all_tools, metrics,
                   help_invoked, list_result, dotenv_file>>
    /\ UNCHANGED plugin_vars

\* the task running call_tool_handler is cancelled at one of its awaits:
\* CancelledError is not an Exception, so the except clause does not catch it,
\* nothing is returned or counted, and no statement touches the child
cancel(i) ==
    /\ calls[i].pc \in {"creating", "running", "exited"}
    /\ calls' = [calls EXCEPT ![i].pc = "cancelled", ![i].outcome = "cancelled"]
    /\ UNCHANGED <<phase, plugins_dir, environ, plugin_registry, all_tools, metrics,
                   help_invoked, list_result, dotenv_file>>
    /\ UNCHANGED plugin_vars

----------------------------------------------------------------------------
(* argparse, as the plugins' main() use it *)

\* one add_argument of a sub-parser: kind is "value" (a string), "float", "int",
\* "store_true" or "choice"; numbers are written with digits only
Opt(flag, dest, kind, required, default) ==
    [flag |-> flag, dest |-> dest, kind |-> kind, required |-> required, default |-> default]

IsDigits(s) == Len(s) > 0 /\ \A i \in 1..Len(s) : Contains("0123456789", Ch(s, i))

DigitVal(c) == CHOOSE d \in 0..9 : Digit(d) = c

\* int(s) for a string of digits
RECURSIVE ParseNat(_)
ParseNat(s) ==
    IF Len(s) = 1 THEN DigitVal(s)
    ELSE 10 * ParseNat(SubSeq(s, 1, Len(s) - 1)) + DigitVal(Ch(s, Len(s)))

\* the namespace before any argument is read: every dest at its default
RECURSIVE Defaults(_)
Defaults(opts) ==
    IF opts = <<>> THEN <<>>
    ELSE <<[key |-> Head(opts).dest, value |-> Head(opts).default]>> \o Defaults(Tail(opts))

OptOf(opts, flag) == opts[CHOOSE k \in 1..Len(opts) : opts[k].flag = flag]

\* parse_args over the arguments after the command: [ok, ns]; ok is FALSE where
\* argparse prints usage and exits with code 2
RECURSIVE ParseLoop(_, _, _, _)
ParseLoop(argv, opts, choices, ns) ==
    IF argv = <<>>
    THEN [ok |-> \A k \in 1..Len(opts) :
                    opts[k].required => Lookup(ns, opts[k].dest) # NoneV,
          ns |-> ns]
    ELSE IF ~\E k \in 1..Len(opts) : opts[k].flag = Head(argv)
    THEN [ok |-> FALSE, ns |-> ns]
    ELSE LET o == OptOf(opts, Head(argv)) IN
         IF o.kind = "store_true"
         THEN ParseLoop(Tail(argv), opts, choices, SetItem(ns, o.dest, BoolV(TRUE)))
         ELSE IF Len(argv) < 2 \/ StartsWith(argv[2], "--")
         THEN [ok |-> FALSE, ns |-> ns]
         ELSE IF o.kind \in {"float", "int"} /\ ~IsDigits(argv[2])
         THEN [ok |-> FALSE, ns |-> ns]
         ELSE IF o.kind = "choice" /\ argv[2] \notin choices
         THEN [ok |-> FALSE, ns |-> ns]
         ELSE ParseLoop(SubSeq(argv, 3, Len(argv)), opts, choices,
                        SetItem(ns, o.dest,
                                IF o.kind \in {"float", "int"} THEN IntV(ParseNat(argv[2]))
                                ELSE StrV(argv[2])))

\* vars(parser.parse_args()) for a sub-command with the given options
ParseArgs(cmd_args, opts, choices) ==
    ParseLoop(SubSeq(cmd_args, 4, Len(cmd_args)), opts, choices,
              <<[key |-> "command", value |-> StrV(cmd_args[3])]>> \o Defaults(opts))

UsageError == "usage: cli.py [-h]\ncli.py: error: invalid arguments\n"

\* args.get(key) as a truth value, and as text
Truthy(v) == (v.t = "str" /\ v.s # "") \/ (v.t = "bool" /\ v.b) \/ (v.t = "int" /\ v.n # 0)

ArgGet(args, key) == IF HasKey(args, key) THEN Lookup(args, key) ELSE NoneV

----------------------------------------------------------------------------
(* the BSC node: the account of the private key, its transactions in the pool
   and in blocks.  A transaction is [fn, to, nonce, token]; gas, gas price and
   chain id are left out. *)

\* the address of a private key, Account.from_key(private_key).address
AddressOf(private_key) == "0xA" \o SubSeq(private_key, 3, Len(private_key))

\* Web3.to_checksum_address over the addresses used here: any spelling of an
\* address gives its checksum spelling
ChecksumTable ==
    <<[key |-> "0xt1", value |-> "0xT1"], [key |-> "0xT1", value |-> "0xT1"],
      [key |-> "0xt2", value |-> "0xT2"], [key |-> "0xT2", value |-> "0xT2"],
      [key |-> "0xr1", value |-> "0xR1"], [key |-> "0xR1", value |-> "0xR1"]>>

IsAddress(a) == HasKey(ChecksumTable, a)

checksum(a) == Lookup(ChecksumTable, a)

HexDigits == "0123456789abcdef"

\* hex(n)
RECURSIVE HexOf(_)
HexOf(n) == IF n < 16 THEN Ch(HexDigits, n + 1) ELSE HexOf(n \div 16) \o Ch(HexDigits, (n % 16) + 1)

Hex(n) == "0x" \o HexOf(n)

\* the hash of a signed transaction: equal transactions have equal hashes
TxHash(tx) == "0x" \o tx.fn \o "-" \o tx.token \o "-" \o NatToStr(tx.nonce)

\* w3.eth.get_transaction_count(from_addr): the transactions of the account in blocks
get_transaction_count(ch) == ch.tx_count

\* token.allowance(from_addr, router)
AllowanceOf(ch, token) == IF HasKey(ch.allowance, token) THEN Lookup(ch.allowance, token) ELSE 0

\* w3.eth.send_raw_transaction: [raised, text, chain]; the node refuses a nonce
\* that is already in a block and a second transaction with a nonce of the pool
send_raw_transaction(ch, tx) ==
    IF tx.nonce < ch.tx_count
    THEN [raised |-> TRUE, text |-> "nonce too low", chain |-> ch]
    ELSE IF \E k \in 1..Len(ch.pending) : ch.pending[k].nonce = tx.nonce
    THEN [raised |-> TRUE,
          text |-> IF tx \in Range(ch.pending) THEN "already known"
                   ELSE "replacement transaction underpriced",
          chain |-> ch]
    ELSE [raised |-> FALSE, text |-> TxHash(tx),
          chain |-> [ch EXCEPT !.pending = Append(@, tx)]]

\* the pool without its k-th transaction
WithoutTx(pending, k) == SubSeq(pending, 1, k - 1) \o SubSeq(pending, k + 1, Len(pending))

MaxAllowance == 1000      \* stands for 2**256 - 1

\* the node puts the transaction of the pool that carries the account's next
\* nonce into a block; it succeeds (status 1) or reverts (status 0)
mine ==
    /\ \E k \in 1..Len(chain.pending), status \in {0, 1} :
          LET tx == chain.pending[k] IN
          /\ tx.nonce = chain.tx_count
          /\ chain' = [chain EXCEPT
                         !.pending = WithoutTx(@, k),
                         !.mined = Append(@, [tx |-> tx, status |-> status]),
                         !.tx_count = @ + 1,
                         !.allowance = IF tx.fn = "approve" /\ status = 1
                                       THEN SetItem(@, tx.token, tx.amount) ELSE @]
    /\ UNCHANGED <<phase, plugins_dir, environ, plugin_registry, all_tools, metrics,
                   help_invoked, list_result, calls, dotenv_file>>
    /\ UNCHANGED <<procs, keystore, pid_file, os_processes, runtime>>

----------------------------------------------------------------------------
(* plugins/bsc/cli.py: approve *)

\* p_app of main()
ApproveOptions ==
    <<Opt("--token", "token", "value", TRUE, NoneV),
      Opt("--spender", "spender", "value", TRUE, NoneV),
      Opt("--amount", "amount", "value", TRUE, NoneV),
      Opt("--from", "from", "value", FALSE, NoneV),
      Opt("--private-key", "private_key", "value", FALSE, NoneV),
      Opt("--broadcast", "broadcast", "store_true", FALSE, BoolV(FALSE)),
      Opt("--gas-price-gwei", "gas_price_gwei", "float", FALSE, NoneV),
      Opt("--chain", "chain", "choice", FALSE, StrV("mainnet"))>>

ChainChoices == {"mainnet", "testnet"}

\* the dicts main() prints: one key with its JSON value
Out(key, json) == [key |-> key, json |-> json]

JsonStr(text) == "\"" \o text \o "\""

\* json.dumps(out)
JsonDumps(out) == "{" \o JsonStr(out.key) \o ": " \o out.json \o "}"

\* {k: (hex(v) if isinstance(v, int) else v) for k, v in tx.items()} as JSON
UnsignedTxJson(tx) ==
    "{\"from\": " \o JsonStr(tx.from) \o ", \"nonce\": " \o JsonStr(Hex(tx.nonce))
    \o ", \"to\": " \o JsonStr(tx.to) \o ", \"data\": " \o JsonStr(tx.fn) \o "}"

\* build_base_tx
build_base_tx(ch, from_addr) == [from |-> from_addr, nonce |-> get_transaction_count(ch)]

\* maybe_send with private_key "" for None: [out, chain]
maybe_send(ch, tx, private_key, broadcast) ==
    IF ~broadcast
    THEN [out |-> Out("unsignedTx", UnsignedTxJson(tx)), chain |-> ch]
    ELSE IF private_key = ""
    THEN [out |-> Out("error", JsonStr("Missing private key; set --private-key or BSC_PRIVATE_KEY")),
          chain |-> ch]
    ELSE LET sent == send_raw_transaction(ch, tx) IN
         IF sent.raised
         THEN [out |-> Out("error", JsonStr(sent.text)), chain |-> ch]
         ELSE [out |-> Out("txHash", JsonStr(sent.text)), chain |-> sent.chain]

\* approve(args) in the environment env against the node ch: [out, chain]; an
\* exception raised on the way is the error main() prints for it
approve(args, env, ch) ==
    LET token_arg   == ArgGet(args, "token")
        spender_arg == ArgGet(args, "spender")
        amount_arg  == ArgGet(args, "amount")
        from_arg    == ArgGet(args, "from")
        key_arg     == ArgGet(args, "private_key")
        private_key == IF Truthy(key_arg) THEN key_arg.s ELSE GetEnv(env, "BSC_PRIVATE_KEY", "")
        broadcast   == IF HasKey(args, "broadcast")
                       THEN Truthy(Lookup(args, "broadcast"))
                       ELSE private_key # ""
    IN IF \/ Truthy(token_arg) /\ ~IsAddress(token_arg.s)
          \/ Truthy(spender_arg) /\ ~IsAddress(spender_arg.s)
          \/ Truthy(from_arg) /\ ~IsAddress(from_arg.s)
       THEN [out |-> Out("error", JsonStr("invalid address")), chain |-> ch]
       ELSE IF amount_arg # NoneV /\ ~IsDigits(amount_arg.s)
       THEN [out |-> Out("error", JsonStr("invalid literal for int() with base 10")),
             chain |-> ch]
       ELSE IF ~Truthy(token_arg) \/ ~Truthy(spender_arg) \/ amount_arg = NoneV
       THEN [out |-> Out("error", JsonStr("Missing required arguments: token, spender, amount")),
             chain |-> ch]
       ELSE IF ~Truthy(from_arg) /\ private_key = ""
       THEN [out |-> Out("error",
                         JsonStr("Provide sender address via from parameter or BSC_PRIVATE_KEY env")),
             chain |-> ch]
       ELSE LET from_addr == IF Truthy(from_arg) THEN checksum(from_arg.s)
                             ELSE AddressOf(private_key)
                base == build_base_tx(ch, from_addr)
                tx == [fn |-> "approve", from |-> base.from, nonce |-> base.nonce,
                       to |-> checksum(token_arg.s), token |-> checksum(token_arg.s),
                       spender |-> checksum(spender_arg.s),
                       amount |-> ParseNat(amount_arg.s)]
            IN maybe_send(ch, tx, private_key, broadcast)

\* whether the child of call i runs the given command of the given plugin's cli.py
IsChildOf(i, plugin_name, command) ==
    /\ calls[i].spawned /\ ~calls[i].exited
    /\ calls[i].pc \in {"running", "cancelled"}
    /\ calls[i].cmd_args[2] = CliPath(plugin_name)
    /\ calls[i].cmd_args[3] = command

\* calls with the child of call i ended: what it printed and its exit code
ChildExited(i, returncode, stdout, stderr) ==
    [calls EXCEPT ![i].pc = IF @ = "running" THEN "exited" ELSE @,
                  ![i].exited = TRUE,
                  ![i].returncode = returncode,
                  ![i].stdout = Encode(stdout), ![i].stderr = Encode(stderr)]

\* main() of bsc/cli.py run for the approve command, from parse_args to sys.exit
bsc_main(i) ==
    /\ IsChildOf(i, "bsc", "approve")
    /\ \E parsed \in {ParseArgs(calls[i].cmd_args, ApproveOptions, ChainChoices)} :
          IF ~parsed.ok
          THEN /\ calls' = ChildExited(i, 2, "", UsageError)
               /\ UNCHANGED chain
          ELSE \E r \in {approve(parsed.ns, calls[i].env, chain)} :
                  /\ calls' = ChildExited(i, IF r.out.key = "error" THEN 1 ELSE 0,
                                          JsonDumps(r.out) \o "\n", "")
                  /\ chain' = r.chain
    /\ UNCHANGED <<phase, plugins_dir, environ, plugin_registry, all_tools, metrics,
                   help_invoked, list_result, dotenv_file>>
    /\ UNCHANGED <<procs, keystore, pid_file, os_processes, runtime>>

----------------------------------------------------------------------------
(* plugins/pancakeswap/cli.py: add-liquidity-v2.  The child of call i is
   procs[i]: its position pc ("check" before the allowance of token k is read,
   "waiting" in wait_for_transaction_receipt, "add" before addLiquidity is built,
   "done") and its local variables. *)

\* p_add of main()
AddLiquidityOptions ==
    <<Opt("--token-a", "token_a", "value", TRUE, NoneV),
      Opt("--token-b", "token_b", "value", TRUE, NoneV),
      Opt("--amount-a-desired", "amount_a_desired", "value", TRUE, NoneV),
      Opt("--amount-b-desired", "amount_b_desired", "value", TRUE, NoneV),
      Opt("--amount-a-min", "amount_a_min", "value", FALSE, StrV("0")),
      Opt("--amount-b-min", "amount_b_min", "value", FALSE, StrV("0")),
      Opt("--to", "to", "value", TRUE, NoneV),
      Opt("--deadline", "deadline", "value", FALSE, NoneV),
      Opt("--broadcast", "broadcast", "store_true", FALSE, BoolV(FALSE)),
      Opt("--private-key", "private_key", "value", FALSE, NoneV),
      Opt("--gas-price-gwei", "gas_price_gwei", "float", FALSE, NoneV),
      Opt("--chain", "chain", "choice", FALSE, StrV("mainnet"))>>

TokenNames == <<"token-a", "token-b">>

ErrorJson(text) == "{\"error\": " \o JsonStr(text) \o "}\n"

\* the child of call i has ended: what it printed, its exit code
ChildExit(i, returncode, stdout) ==
    /\ calls' = ChildExited(i, returncode, stdout, "")
    /\ procs' = IF i \in DOMAIN procs THEN [procs EXCEPT ![i].pc = "done"] ELSE procs

\* main() and add_liquidity_v2 up to the loop over the two tokens
add_liquidity_v2(i) ==
    /\ IsChildOf(i, "pancakeswap", "add-liquidity-v2")
    /\ i \notin DOMAIN procs
    /\ \E parsed \in {ParseArgs(calls[i].cmd_args, AddLiquidityOptions, ChainChoices)} :
          LET args        == parsed.ns
              key_arg     == ArgGet(args, "private_key")
              private_key == IF Truthy(key_arg) THEN key_arg.s
                             ELSE GetEnv(calls[i].env, "BSC_PRIVATE_KEY", "")
              broadcast   == IF HasKey(args, "broadcast")
                             THEN Truthy(Lookup(args, "broadcast"))
                             ELSE private_key # ""
              addresses   == {ArgGet(args, "token_a").s, ArgGet(args, "token_b").s,
                              ArgGet(args, "to").s}
              amounts     == {ArgGet(args, "amount_a_desired").s,
                              ArgGet(args, "amount_b_desired").s,
                              ArgGet(args, "amount_a_min").s, ArgGet(args, "amount_b_min").s}
          IN IF ~parsed.ok
             THEN /\ calls' = ChildExited(i, 2, "", UsageError)
                  /\ UNCHANGED procs
             ELSE IF \E a \in addresses : ~IsAddress(a)
             THEN ChildExit(i, 1, ErrorJson("invalid address"))
             ELSE IF \E n \in amounts : ~IsDigits(n)
             THEN ChildExit(i, 1, ErrorJson("invalid literal for int() with base 10"))
             ELSE IF private_key = ""
             THEN ChildExit(i, 1, ErrorJson("Missing private key; set BSC_PRIVATE_KEY in .env"))
             ELSE /\ procs' = (i :> [pc |-> "check", k |-> 1,
                                     tokens |-> <<checksum(ArgGet(args, "token_a").s),
                                                  checksum(ArgGet(args, "token_b").s)>>,
                                     needed |-> <<ParseNat(ArgGet(args, "amount_a_desired").s),
                                                  ParseNat(ArgGet(args, "amount_b_desired").s)>>,
                                     private_key |-> private_key,
                                     broadcast |-> broadcast,
                                     from_addr |-> AddressOf(private_key),
                                     approval_txs |-> <<>>,
                                     approval_txhash |-> ""]) @@ procs
                  /\ UNCHANGED calls
    /\ UNCHANGED <<phase, plugins_dir, environ, plugin_registry, all_tools, metrics,
                   help_invoked, list_result, dotenv_file>>
    /\ UNCHANGED <<chain, keystore, pid_file, os_processes, runtime>>

\* the nonce of the approval: get_transaction_count(from_addr) + len(approval_txs)
approve_nonce(ch, approval_txs) == get_transaction_count(ch) + Len(approval_txs)

\* one pass of the loop over the tokens, up to the wait for the receipt: the
\* allowance is read and, where it is too small, the approval is built (the gas
\* estimate may fail), signed and sent
check_allowance(i) ==
    /\ i \in DOMAIN procs
    /\ procs[i].pc = "check"
    /\ LET p     == procs[i]
           token == p.tokens[p.k]
           name  == TokenNames[p.k]
           approve_tx == [fn |-> "approve", from |-> p.from_addr,
                          nonce |-> approve_nonce(chain, p.approval_txs),
                          to |-> token, token |-> token,
                          spender |-> "router", amount |-> MaxAllowance]
       IN IF AllowanceOf(chain, token) >= p.needed[p.k]
          THEN /\ procs' = [procs EXCEPT ![i].pc = IF p.k = 2 THEN "add" ELSE "check",
                                         ![i].k = IF p.k = 2 THEN 2 ELSE p.k + 1]
               /\ UNCHANGED <<calls, chain>>
          ELSE \/ /\ ChildExit(i, 1, ErrorJson("Approval gas estimation failed for "
                                               \o name \o ": execution reverted"))
                  /\ UNCHANGED chain
               \/ IF ~p.broadcast
                  THEN /\ ChildExit(i, 0, "{\"approval_needed\": true, \"token_needing_approval\": "
                                          \o JsonStr(name) \o ", \"unsigned_approval_tx\": "
                                          \o UnsignedTxJson(approve_tx) \o "}\n")
                       /\ UNCHANGED chain
                  ELSE \E sent \in {send_raw_transaction(chain, approve_tx)} :
                          IF sent.raised
                          THEN /\ ChildExit(i, 1, ErrorJson("Approval transaction failed for "
                                                            \o name \o ": " \o sent.text))
                               /\ UNCHANGED chain
                          ELSE /\ procs' = [procs EXCEPT ![i].pc = "waiting",
                                                         ![i].approval_txhash = sent.text]
                               /\ chain' = sent.chain
                               /\ UNCHANGED calls
    /\ UNCHANGED <<phase, plugins_dir, environ, plugin_registry, all_tools, metrics,
                   help_invoked, list_result, dotenv_file>>
    /\ UNCHANGED <<keystore, pid_file, os_processes, runtime>>

\* the receipts of the transactions in blocks with the given hash
Receipts(ch, hash) == {m \in Range(ch.mined) : TxHash(m.tx) = hash}

\* w3.eth.wait_for_transaction_receipt(hash, timeout=120) returns the receipt of
\* the mined approval, or raises TimeExhausted while it is still not in a block
wait_for_transaction_receipt(i) ==
    /\ i \in DOMAIN procs
    /\ procs[i].pc = "waiting"
    /\ LET p == procs[i]
           name == TokenNames[p.k]
       IN IF Receipts(chain, p.approval_txhash) = {}
          THEN ChildExit(i, 1, ErrorJson("Approval transaction failed for " \o name
                                         \o ": Transaction is not in the chain after 120 seconds"))
          ELSE \E receipt \in Receipts(chain, p.approval_txhash) :
                  IF receipt.status # 1
                  THEN ChildExit(i, 1, ErrorJson("Approval transaction failed for " \o name
                                                 \o ". TxHash: " \o p.approval_txhash))
                  ELSE /\ procs' = [procs EXCEPT
                                      ![i].approval_txs =
                                          Append(@, [token |-> name, txHash |-> p.approval_txhash]),
                                      ![i].pc = IF p.k = 2 THEN "add" ELSE "check",
                                      ![i].k = IF p.k = 2 THEN 2 ELSE p.k + 1]
                       /\ UNCHANGED calls
    /\ UNCHANGED <<phase, plugins_dir, environ, plugin_registry, all_tools, metrics,
                   help_invoked, list_result, dotenv_file>>
    /\ UNCHANGED <<chain, keystore, pid_file, os_processes, runtime>>

\* the rest of add_liquidity_v2: addLiquidity is built on _base_tx and handed to
\* _maybe_send, and main() prints the result
send_add_liquidity(i) ==
    /\ i \in DOMAIN procs
    /\ procs[i].pc = "add"
    /\ LET p  == procs[i]
           tx == [fn |-> "addLiquidity", from |-> p.from_addr,
                  nonce |-> get_transaction_count(chain),
                  to |-> "router", token |-> p.tokens[1] \o "/" \o p.tokens[2],
                  spender |-> "", amount |-> 0]
       IN \E r \in {maybe_send(chain, tx, p.private_key, p.broadcast)} :
             /\ ChildExit(i, IF r.out.key = "error" THEN 1 ELSE 0,
                          IF p.approval_txs = <<>> THEN JsonDumps(r.out) \o "\n"
                          ELSE "{" \o JsonStr(r.out.key) \o ": " \o r.out.json
                               \o ", \"approval_status\": \"completed\"}\n")
             /\ chain' = r.chain
    /\ UNCHANGED <<phase, plugins_dir, environ, plugin_registry, all_tools, metrics,
                   help_invoked, list_result, dotenv_file>>
    /\ UNCHANGED <<keystore, pid_file, os_processes, runtime>>

----------------------------------------------------------------------------
(* plugins/signer/cli.py: create-wallet and import-private-key.  The child of
   call i is procs[i]: pc "write" before path.write_text, "env" before
   _update_env_file, "done".  --provider is an option of the main parser, so a
   command line built by execute_plugin_tool always runs with provider "local". *)

\* p_cw and p_ipk of main()
CreateWalletOptions ==
    <<Opt("--label", "label", "value", TRUE, NoneV),
      Opt("--password", "password", "value", FALSE, NoneV)>>

ImportKeyOptions ==
    <<Opt("--label", "label", "value", TRUE, NoneV),
      Opt("--private-key", "private_key", "value", TRUE, NoneV),
      Opt("--password", "password", "value", FALSE, NoneV)>>

\* Account.create(): the key of the i-th child, different for every child
NewKey(i) == "0xnew" \o NatToStr(i)

\* Account.encrypt(key, password) as written to label.json
KeystoreJson(private_key, password) ==
    [address |-> AddressOf(private_key), private_key |-> private_key, password |-> password]

\* the value written for BSC_PRIVATE_KEY
HexKey(private_key) == IF StartsWith(private_key, "0x") THEN private_key ELSE "0x" \o private_key

\* main(), then create_wallet or import_private_key up to path.exists()
signer_main(i) ==
    /\ \/ IsChildOf(i, "signer", "create-wallet")
       \/ IsChildOf(i, "signer", "import-private-key")
    /\ i \notin DOMAIN procs
    /\ LET op == calls[i].cmd_args[3]
           opts == IF op = "create-wallet" THEN CreateWalletOptions ELSE ImportKeyOptions
       IN \E parsed \in {ParseArgs(calls[i].cmd_args, opts, {})} :
          LET args     == parsed.ns
              label    == ArgGet(args, "label")
              pw_arg   == ArgGet(args, "password")
              password == IF Truthy(pw_arg) THEN pw_arg.s
                          ELSE GetEnv(calls[i].env, "SIGNER_PASSWORD", "")
              key_arg  == ArgGet(args, "private-key")
              private_key == IF op = "create-wallet" THEN NewKey(i) ELSE key_arg.s
          IN IF ~parsed.ok
             THEN /\ calls' = ChildExited(i, 2, "", UsageError)
                  /\ UNCHANGED procs
             ELSE IF op = "create-wallet" /\ ~Truthy(label)
             THEN ChildExit(i, 1, ErrorJson("Missing required argument: label"))
             ELSE IF op = "import-private-key" /\ (~Truthy(label) \/ ~Truthy(key_arg))
             THEN ChildExit(i, 1, ErrorJson("Missing required arguments: label, private-key"))
             ELSE IF password = ""
             THEN ChildExit(i, 1, ErrorJson("Missing password. Provide --password or SIGNER_PASSWORD"))
             ELSE IF HasKey(keystore, label.s)
             THEN ChildExit(i, 1, ErrorJson("Label already exists: " \o label.s))
             ELSE /\ procs' = (i :> [pc |-> "write", label |-> label.s,
                                     private_key |-> private_key,
                                     keystore_json |-> KeystoreJson(private_key, password)])
                              @@ procs
                  /\ UNCHANGED calls
    /\ UNCHANGED <<phase, plugins_dir, environ, plugin_registry, all_tools, metrics,
                   help_invoked, list_result, dotenv_file>>
    /\ UNCHANGED <<chain, keystore, pid_file, os_processes, runtime>>

\* path.write_text(json.dumps(keystore_json)): the file is created or truncated
write_text(i) ==
    /\ i \in DOMAIN procs
    /\ procs[i].pc = "write"
    /\ keystore' = SetItem(keystore, procs[i].label, procs[i].keystore_json)
    /\ procs' = [procs EXCEPT ![i].pc = "env"]
    /\ UNCHANGED <<phase, plugins_dir, environ, plugin_registry, all_tools, metrics,
                   help_invoked, list_result, calls, dotenv_file>>
    /\ UNCHANGED <<chain, pid_file, os_processes, runtime>>

\* _update_env_file("BSC_PRIVATE_KEY", key), the return of the command and the
\* print and sys.exit(0) of main()
signer_update_env(i) ==
    /\ i \in DOMAIN procs
    /\ procs[i].pc = "env"
    /\ dotenv_file' = update_env_file(dotenv_file, "BSC_PRIVATE_KEY",
                                      HexKey(procs[i].private_key))
    /\ ChildExit(i, 0, "{\"label\": " \o JsonStr(procs[i].label) \o ", \"address\": "
                       \o JsonStr(procs[i].keystore_json.address) \o "}\n")
    /\ UNCHANGED <<phase, plugins_dir, environ, plugin_registry, all_tools, metrics,
                   help_invoked, list_result>>
    /\ UNCHANGED <<chain, keystore, pid_file, os_processes, runtime>>

----------------------------------------------------------------------------
(* plugins/vibing/cli.py: start-autonomous and stop-autonomous.  os_processes
   holds the runtime.py processes spawned so far, the pid of a process being its
   index; a process is "alive", "terminating" (SIGTERM received, handle_shutdown
   running) or "dead".  The child of call i is procs[i]: pc "popen" before
   subprocess.Popen, "save" before the pid is written, "kill" before os.kill. *)

\* start_parser of main()
StartOptions ==
    <<Opt("--max-trades", "max_trades", "int", FALSE, IntV(5)),
      Opt("--interval-minutes", "interval_minutes", "int", FALSE, IntV(15))>>

\* os.kill(pid, 0) does not raise
ProcessExists(pid) == pid \in 1..Len(os_processes) /\ os_processes[pid].state # "dead"

\* json.dumps(result, indent=2) of the results below; the timestamp is left out
AlreadyRunningJson(pid) ==
    "{\n  \"success\": false,\n  \"message\": \"Autonomous trading is already running\",\n  \"pid\": "
    \o NatToStr(pid) \o "\n}\n"

StartedJson(pid, max_trades, interval_minutes) ==
    "{\n  \"success\": true,\n  \"message\": \"Autonomous trading started\",\n  \"config\": {\n    \"max_trades\": "
    \o NatToStr(max_trades) \o ",\n    \"interval_minutes\": " \o NatToStr(interval_minutes)
    \o ",\n    \"pid\": " \o NatToStr(pid)
    \o ",\n    \"status\": \"STARTING\"\n  }\n}\n"

NotFoundJson ==
    "{\n  \"success\": false,\n  \"message\": \"No autonomous trading process found\"\n}\n"

StoppedJson(pid) ==
    "{\n  \"success\": true,\n  \"message\": \"Autonomous trading stopped\",\n  \"pid\": "
    \o NatToStr(pid) \o "\n}\n"

\* main() and start_autonomous up to Popen: the pid file is looked at, and removed
\* when the process it names is gone
start_autonomous(i) ==
    /\ IsChildOf(i, "vibing", "start-autonomous")
    /\ i \notin DOMAIN procs
    /\ \E parsed \in {ParseArgs(calls[i].cmd_args, StartOptions, {})} :
          IF ~parsed.ok
          THEN /\ calls' = ChildExited(i, 2, "", UsageError)
               /\ UNCHANGED <<procs, pid_file>>
          ELSE IF pid_file.exists /\ ProcessExists(pid_file.pid)
          THEN /\ ChildExit(i, 0, AlreadyRunningJson(pid_file.pid))
               /\ UNCHANGED pid_file
          ELSE /\ pid_file' = NoPidFile
               /\ procs' = (i :> [pc |-> "popen",
                                  max_trades |-> Lookup(parsed.ns, "max_trades").n,
                                  interval_minutes |-> Lookup(parsed.ns, "interval_minutes").n,
                                  pid |-> 0]) @@ procs
               /\ UNCHANGED calls
    /\ UNCHANGED <<phase, plugins_dir, environ, plugin_registry, all_tools, metrics,
                   help_invoked, list_result, dotenv_file>>
    /\ UNCHANGED <<chain, keystore, os_processes, runtime>>

\* subprocess.Popen([sys.executable, runtime_script, ...])
Popen(i) ==
    /\ i \in DOMAIN procs
    /\ procs[i].pc = "popen"
    /\ os_processes' = Append(os_processes,
                              [state |-> "alive", max_trades |-> procs[i].max_trades])
    /\ procs' = [procs EXCEPT ![i].pc = "save", ![i].pid = Len(os_processes) + 1]
    /\ UNCHANGED <<phase, plugins_dir, environ, plugin_registry, all_tools, metrics,
                   help_invoked, list_result, calls, dotenv_file>>
    /\ UNCHANGED <<chain, keystore, pid_file, runtime>>

\* the pid is written to runtime.pid, start_autonomous returns and main() exits
save_pid(i) ==
    /\ i \in DOMAIN procs
    /\ procs[i].pc = "save"
    /\ pid_file' = [exists |-> TRUE, pid |-> procs[i].pid]
    /\ ChildExit(i, 0, StartedJson(procs[i].pid, procs[i].max_trades, procs[i].interval_minutes))
    /\ UNCHANGED <<phase, plugins_dir, environ, plugin_registry, all_tools, metrics,
                   help_invoked, list_result, dotenv_file>>
    /\ UNCHANGED <<chain, keystore, os_processes, runtime>>

\* main() and stop_autonomous up to os.kill: the pid file is read
stop_autonomous(i) ==
    /\ IsChildOf(i, "vibing", "stop-autonomous")
    /\ i \notin DOMAIN procs
    /\ IF Len(calls[i].cmd_args) > 3
       THEN /\ calls' = ChildExited(i, 2, "", UsageError)
            /\ UNCHANGED procs
       ELSE IF ~pid_file.exists
       THEN ChildExit(i, 0, NotFoundJson)
       ELSE /\ procs' = (i :> [pc |-> "kill", pid |-> pid_file.pid]) @@ procs
            /\ UNCHANGED calls
    /\ UNCHANGED <<phase, plugins_dir, environ, plugin_registry, all_tools, metrics,
                   help_invoked, list_result, dotenv_file>>
    /\ UNCHANGED <<chain, keystore, pid_file, os_processes, runtime>>

\* os.kill(pid, SIGTERM), an OSError being logged only; pid_file.unlink(), which
\* raises when the file is gone; the return and the exit of main()
kill_and_unlink(i) ==
    /\ i \in DOMAIN procs
    /\ procs[i].pc = "kill"
    /\ os_processes' = IF ProcessExists(procs[i].pid)
                       THEN [os_processes EXCEPT ![procs[i].pid].state = "terminating"]
                       ELSE os_processes
    /\ IF pid_file.exists
       THEN /\ pid_file' = NoPidFile
            /\ ChildExit(i, 0, StoppedJson(procs[i].pid))
       ELSE /\ UNCHANGED pid_file
            /\ ChildExit(i, 1, "{\n  \"error\": \"[Errno 2] No such file or directory\"\n}\n")
    /\ UNCHANGED <<phase, plugins_dir, environ, plugin_registry, all_tools, metrics,
                   help_invoked, list_result, dotenv_file>>
    /\ UNCHANGED <<chain, keystore, runtime>>

\* a runtime process ends: handle_shutdown reaches sys.exit(0) after SIGTERM, or
\* main() of runtime.py ends on a runtime error
runtime_exit(pid) ==
    /\ ProcessExists(pid)
    /\ os_processes' = [os_processes EXCEPT ![pid].state = "dead"]
    /\ UNCHANGED <<phase, plugins_dir, environ, plugin_registry, all_tools, metrics,
                   help_invoked, list_result, calls, dotenv_file>>
    /\ UNCHANGED <<procs, chain, keystore, pid_file, runtime>>

----------------------------------------------------------------------------
(* plugins/vibing/runtime.py: VibingRuntime.  active_trades is the dict of the
   open trades, kept as the sequence of its keys in insertion order.  The
   coroutines of the runtime give up control only in asyncio.sleep, at the end
   of a pass of monitor_trades and after autonomous_cycle in run(); a cycle and
   a pass are therefore one step each, and they alternate in any order.
   slice and opened are the record of the last cycle: the part of the
   discovered list that the loop ran over, and one entry for each order that
   execute_trade got from open_trade, with held telling whether the symbol was
   a key of active_trades when the order was placed. *)

\* VibingRuntime.__init__
VibingRuntime(max_trades) ==
    [constructed |-> TRUE, max_trades |-> max_trades, active_trades |-> <<>>,
     running |-> TRUE, slice |-> <<>>, opened |-> <<>>]

\* list[:n] of Python
Slice(list, n) ==
    IF n >= 0
    THEN SubSeq(list, 1, IF n < Len(list) THEN n ELSE Len(list))
    ELSE SubSeq(list, 1, IF Len(list) + n > 0 THEN Len(list) + n ELSE 0)

TradeSlots_Whole(max_trades, active_trades) == max_trades

\* the bound of the slice of discovered in autonomous_cycle
TradeSlots(max_trades, active_trades) == max_trades - Len(active_trades)

\* self.active_trades[symbol] = {...}: a new key goes to the end, a key that is
\* there keeps its place
SetTrade(active_trades, symbol) ==
    IF symbol \in Range(active_trades) THEN active_trades ELSE Append(active_trades, symbol)

\* the loop of autonomous_cycle over the slice: results[k] tells whether the
\* research and the execution of the k-th symbol end with an order ("opened") or
\* not ("refused": no thesis, low confidence, SELL without holdings, or an error
\* of open_trade)
RECURSIVE CycleLoop(_, _, _, _)
CycleLoop(symbols, results, active_trades, opened) ==
    IF symbols = <<>> THEN [active_trades |-> active_trades, opened |-> opened]
    ELSE IF Head(symbols) \in Range(active_trades) \/ Head(results) = "refused"
    THEN CycleLoop(Tail(symbols), Tail(results), active_trades, opened)
    ELSE CycleLoop(Tail(symbols), Tail(results),
                   SetTrade(active_trades, Head(symbols)),
                   Append(opened, [symbol |-> Head(symbols),
                                   held |-> Head(symbols) \in Range(active_trades)]))

\* one run of autonomous_cycle in run(): discover_trending_coins is called, and
\* gives discovered, only with can_trade and with room for a trade
autonomous_cycle(can_trade, discovered) ==
    /\ runtime.constructed /\ runtime.running
    /\ LET called == can_trade /\ Len(runtime.active_trades) < runtime.max_trades
           slice  == IF called
                     THEN Slice(discovered,
                                TradeSlots(runtime.max_trades, runtime.active_trades))
                     ELSE <<>>
       IN  /\ called \/ discovered = <<>>
           /\ \E results \in [1..Len(slice) -> {"opened", "refused"}] :
                 \E done \in {CycleLoop(slice, results, runtime.active_trades, <<>>)} :
                    runtime' = [runtime EXCEPT !.active_trades = done.active_trades,
                                               !.slice = slice,
                                               !.opened = done.opened]
    /\ UNCHANGED <<phase, plugins_dir, environ, plugin_registry, all_tools, metrics,
                   help_invoked, list_result, calls, dotenv_file>>
    /\ UNCHANGED <<procs, chain, keystore, pid_file, os_processes>>

\* one pass of monitor_trades: closed holds the symbols whose PnL reached a
\* threshold and whose close_trade deleted the entry
monitor_trades(closed) ==
    /\ runtime.constructed /\ runtime.running
    /\ closed \subseteq Range(runtime.active_trades)
    /\ runtime' = [runtime EXCEPT
                     !.active_trades = SelectSeq(@, LAMBDA symbol : symbol \notin closed)]
    /\ UNCHANGED <<phase, plugins_dir, environ, plugin_registry, all_tools, metrics,
                   help_invoked, list_result, calls, dotenv_file>>
    /\ UNCHANGED <<procs, chain, keystore, pid_file, os_processes>>

\* SIGTERM or SIGINT: running is cleared and the process exits
handle_shutdown ==
    /\ runtime.constructed /\ runtime.running
    /\ runtime' = [runtime EXCEPT !.running = FALSE]
    /\ UNCHANGED <<phase, plugins_dir, environ, plugin_registry, all_tools, metrics,
                   help_invoked, list_result, calls, dotenv_file>>
    /\ UNCHANGED <<procs, chain, keystore, pid_file, os_processes>>

----------------------------------------------------------------------------
(* the dispatch specification: one plugins directory, a few requests *)

HelpRun(returncode, stdout) == [raises |-> FALSE, returncode |-> returncode, stdout |-> stdout]
HelpRaises == [raises |-> TRUE, returncode |-> 0, stdout |-> ""]

Plugin(name, help) == [name |-> name, is_dir |-> TRUE, has_cli |-> TRUE, help |-> help]

HelpAlpha  == "Available commands:\n  foo\n  bar\n"
HelpBeta   == "Available commands:\n  baz\n"
HelpSigner == "usage: cli.py [-h]\n\nAvailable commands:\n  create-wallet       Create new wallet in local keystore\n\nCommon options:\n  --label <name>\n"
HelpRun1   == "Available commands:\n  run\n"

ServeDir ==
    [exists |-> TRUE,
     entries |-> <<Plugin("alpha", HelpRun(0, HelpAlpha)),
                   Plugin("beta", HelpRun(0, "hello\n")),
                   Plugin("my_plugin", HelpRun(0, HelpRun1)),
                   Plugin("signer", HelpRun(0, HelpSigner))>>]

NoFile == [exists |-> FALSE, text |-> ""]

\* a listed tool; a command of a registered plugin that lists none; a name with no
\* separator; a listed tool of a plugin whose name holds a separator; a wallet tool
RequestNames ==
    {"alpha_foo", "beta_do_it", "health", "my_plugin_run", "signer_create-wallet"}

RequestArguments ==
    {<<[key |-> "label", value |-> StrV("w1")],
       [key |-> "request_heartbeat", value |-> BoolV(TRUE)]>>}

Exit(returncode, stdout, stderr) ==
    [returncode |-> returncode, stdout |-> stdout, stderr |-> stderr]

\* what a child may end with: print(json.dumps(out)) and exit 0; output that is
\* not UTF-8; a diagnostic on stderr, on stdout, or none at all with a non-zero code
Exits ==
    {Exit(0, Encode("{\"ok\":true}\n"), <<>>),
     Exit(0, <<255>>, <<>>),
     Exit(1, <<>>, Encode("boom\n")),
     Exit(1, Encode("{\"error\":\"no\"}\n"), <<>>),
     Exit(2, <<>>, <<>>)}

Init ==
    /\ phase = "startup"
    /\ plugins_dir = ServeDir
    /\ environ = <<>>
    /\ dotenv_file = NoFile
    /\ plugin_registry = <<>>
    /\ all_tools = <<>>
    /\ metrics = Metrics0
    /\ help_invoked = <<>>
    /\ list_result = [returned |-> FALSE, tools |-> <<>>]
    /\ calls = <<>>
    /\ PluginsIdle

Next ==
    \/ main
    \/ list_tools_handler
    \/ call_tool_handler(RequestNames, RequestArguments, MaxCalls)
    \/ \E i \in 1..Len(calls) : create_subprocess_exec(i)
    \/ \E i \in 1..Len(calls) : process_exit(i, Exits)
    \/ \E i \in 1..Len(calls) : communicate(i)

Spec == Init /\ [][Next]_vars

----------------------------------------------------------------------------
(* the startup specification: any small plugins directory and deny-list *)

EntryNames == {"alpha", "alpha_x", "beta", "devops"}

\* help runs: two that list commands, one in argparse's layout that lists a command
\* twice, one that exits non-zero, one that raises (a timeout)
HelpRuns ==
    {HelpRun(0, HelpAlpha),
     HelpRun(0, "Available commands:\n  x_foo\n"),
     HelpRun(0, "usage: cli.py\n\nAvailable commands:\n  foo   Does foo\n  foo   Again\n\nExamples:\n  python cli.py foo\n"),
     HelpRun(1, HelpAlpha),
     HelpRaises}

\* a plugin directory with its cli.py, a directory without one, a plain file
DirEntries ==
    {Plugin(n, h) : n \in EntryNames, h \in HelpRuns}
    \cup {[name |-> n, is_dir |-> TRUE, has_cli |-> FALSE, help |-> HelpRaises] : n \in EntryNames}
    \cup {[name |-> n, is_dir |-> FALSE, has_cli |-> FALSE, help |-> HelpRaises] : n \in EntryNames}

\* the listings iterdir() may yield: up to MaxDirs entries with distinct names
DirListings ==
    UNION {{s \in [1..n -> DirEntries] :
               \A i, j \in 1..n : i # j => s[i].name # s[j].name} : n \in 0..MaxDirs}

EnvOf(disabled) == <<[key |-> "MCP_DISABLED_PLUGINS", value |-> disabled]>>

DotenvOf(text) == [exists |-> TRUE, text |-> text]

\* os.environ and .env as main() finds them: MCP_DISABLED_PLUGINS unset, or set in
\* the environment, in .env, or in both
StartupConfigs ==
    {[environ |-> <<>>,                      dotenv_file |-> NoFile],
     [environ |-> <<>>,                      dotenv_file |-> DotenvOf("MCP_DISABLED_PLUGINS=beta\n")],
     [environ |-> EnvOf(""),                 dotenv_file |-> NoFile],
     [environ |-> EnvOf("alpha"),            dotenv_file |-> DotenvOf("MCP_DISABLED_PLUGINS=beta\n")],
     [environ |-> EnvOf(" alpha_x , beta"),  dotenv_file |-> NoFile],
     [environ |-> EnvOf("alpha,"),           dotenv_file |-> NoFile]}

InitStartup ==
    /\ phase = "startup"
    /\ \E exists \in BOOLEAN, entries \in DirListings :
          /\ (~exists => entries = <<>>)
          /\ plugins_dir = [exists |-> exists, entries |-> entries]
    /\ \E cfg \in StartupConfigs :
          /\ environ = cfg.environ
          /\ dotenv_file = cfg.dotenv_file
    /\ plugin_registry = <<>>
    /\ all_tools = <<>>
    /\ metrics = Metrics0
    /\ help_invoked = <<>>
    /\ list_result = [returned |-> FALSE, tools |-> <<>>]
    /\ calls = <<>>
    /\ PluginsIdle

NextStartup ==
    \/ main
    \/ list_tools_handler

SpecStartup == InitStartup /\ [][NextStartup]_vars

----------------------------------------------------------------------------
(* the help specification: plugins with any of the help runs below, the
   deny-list left at its default *)

HelpEntryNames == {"alpha", "beta", "my.plugin"}

\* a help text in argparse's layout whose commands section holds a reserved first
\* word, lines indented by one space and by a tab, a line that is not indented, a
\* token with a dot, and an indented line after the blank line that ends it
HelpLayout ==
    "usage: cli.py [-h]\n\noptions:\n  -h\n\nAvailable commands:\n  foo   Does foo\n  options: none\n one\n\ttab\nplain\n  foo.bar\n\n  late\n"

\* a help text whose marker lines are indented
HelpIndented == "  Available commands:\n  run\n  Examples:\n  not-a-command\n"

\* help runs: four that list commands, one that prints no commands section, one
\* that exits non-zero after printing one, one that raises (a timeout)
HelpRunsAll ==
    {HelpRun(0, HelpAlpha),
     HelpRun(0, HelpBeta),
     HelpRun(0, HelpLayout),
     HelpRun(0, HelpIndented),
     HelpRun(0, "hello\n"),
     HelpRun(1, HelpAlpha),
     HelpRaises}

\* the listings of up to MaxDirs plugins with distinct names
HelpListings ==
    UNION {{s \in [1..n -> {Plugin(name, h) : name \in HelpEntryNames, h \in HelpRunsAll}] :
               \A i, j \in 1..n : i # j => s[i].name # s[j].name} : n \in 0..MaxDirs}

InitHelp ==
    /\ phase = "startup"
    /\ \E entries \in HelpListings : plugins_dir = [exists |-> TRUE, entries |-> entries]
    /\ environ = <<>>
    /\ dotenv_file = NoFile
    /\ plugin_registry = <<>>
    /\ all_tools = <<>>
    /\ metrics = Metrics0
    /\ help_invoked = <<>>
    /\ list_result = [returned |-> FALSE, tools |-> <<>>]
    /\ calls = <<>>
    /\ PluginsIdle

SpecHelp == InitHelp /\ [][NextStartup]_vars

----------------------------------------------------------------------------
(* the schema specification: the plugins tool_schemas names, and one it does not,
   each listing every command tool_schemas has for it and a command "status" it
   has not, or one command only *)

HelpSignerAll ==
    "Available commands:\n  create-wallet\n  import-private-key\n  list-wallets\n  get-address\n  sign-tx\n  send-tx\n  sign-typed-data\n  status\n"

HelpBscAll ==
    "Available commands:\n  get-balance\n  get-token-balance\n  allowance\n  approve\n  send-native\n  send-erc20\n  gas-price\n  wrap-bnb\n  unwrap-bnb\n  nonce\n  status\n"

HelpPancakeswapAll ==
    "Available commands:\n  get-pair-info\n  quote-out\n  quote-in\n  swap-auto\n  swap-exact-tokens\n  add-liquidity-v2\n  remove-liquidity-v2\n  status\n"

HelpCoinmarketcapAll ==
    "Available commands:\n  get-price\n  get-info\n  search\n  global-metrics\n  status\n"

SchemaEntries ==
    {Plugin("signer", HelpRun(0, HelpSignerAll)),
     Plugin("signer", HelpRun(0, "Available commands:\n  list-wallets\n")),
     Plugin("bsc", HelpRun(0, HelpBscAll)),
     Plugin("bsc", HelpRun(0, "Available commands:\n  gas-price\n")),
     Plugin("pancakeswap", HelpRun(0, HelpPancakeswapAll)),
     Plugin("pancakeswap", HelpRun(0, "Available commands:\n  quote-out\n")),
     Plugin("coinmarketcap", HelpRun(0, HelpCoinmarketcapAll)),
     Plugin("coinmarketcap", HelpRun(0, "Available commands:\n  search\n")),
     Plugin("vibing", HelpRun(0, "Available commands:\n  status\n")),
     Plugin("vibing", HelpRun(0, "Available commands:\n  create-wallet\n  get-price\n"))}

SchemaListings ==
    UNION {{s \in [1..n -> SchemaEntries] :
               \A i, j \in 1..n : i # j => s[i].name # s[j].name} : n \in 0..MaxDirs}

InitSchema ==
    /\ phase = "startup"
    /\ \E entries \in SchemaListings : plugins_dir = [exists |-> TRUE, entries |-> entries]
    /\ environ = <<>>
    /\ dotenv_file = NoFile
    /\ plugin_registry = <<>>
    /\ all_tools = <<>>
    /\ metrics = Metrics0
    /\ help_invoked = <<>>
    /\ list_result = [returned |-> FALSE, tools |-> <<>>]
    /\ calls = <<>>
    /\ PluginsIdle

SpecSchema == InitSchema /\ [][NextStartup]_vars

----------------------------------------------------------------------------
(* the argv specification: one request with any small arguments mapping *)

ArgKeys == {"symbol", "broadcast", "gasPriceGwei", "request_heartbeat"}

ArgValues == {BoolV(TRUE), BoolV(FALSE), IntV(5), StrV("BTC"), NoneV}

ArgItems == {[key |-> k, value |-> v] : k \in ArgKeys, v \in ArgValues}

\* the mappings of up to MaxArgs items, in every iteration order
ArgvArguments ==
    UNION {{s \in [1..n -> ArgItems] :
               \A i, j \in 1..n : i # j => s[i].key # s[j].key} : n \in 0..MaxArgs}

ArgvExits == {Exit(0, Encode("{\"ok\":true}\n"), <<>>)}

NextArgv ==
    \/ main
    \/ call_tool_handler({"alpha_foo"}, ArgvArguments, 1)
    \/ \E i \in 1..Len(calls) : create_subprocess_exec(i)
    \/ \E i \in 1..Len(calls) : process_exit(i, ArgvExits)
    \/ \E i \in 1..Len(calls) : communicate(i)

SpecArgv == Init /\ [][NextArgv]_vars

----------------------------------------------------------------------------
(* the exit specification: requests for one tool, any way its child may end *)

\* Exits and, with a non-zero code: a diagnostic on both streams, a lone newline
\* on stderr, stderr that is not UTF-8
FailureExits ==
    Exits \cup
    {Exit(1, Encode("partial\n"), Encode("boom\n")),
     Exit(1, Encode("partial\n"), Encode("\n")),
     Exit(2, <<>>, <<255>>)}

NextExit ==
    \/ main
    \/ call_tool_handler({"alpha_foo"}, RequestArguments, MaxCalls)
    \/ \E i \in 1..Len(calls) : create_subprocess_exec(i)
    \/ \E i \in 1..Len(calls) : process_exit(i, FailureExits)
    \/ \E i \in 1..Len(calls) : communicate(i)

SpecExit == Init /\ [][NextExit]_vars

----------------------------------------------------------------------------
(* the wallet specification: requests for signer tools and one other tool, with
   and without a key already in .env *)

\* the two wallet tools, another tool of the same plugin, a tool of another plugin
WalletRequestNames ==
    {"signer_create-wallet", "signer_import-private-key", "signer_list-wallets", "alpha_foo"}

\* exit 0 with JSON, exit 0 with output that is not UTF-8, exit 1 with a diagnostic
WalletExits ==
    {Exit(0, Encode("{\"ok\":true}\n"), <<>>),
     Exit(0, <<255>>, <<>>),
     Exit(1, <<>>, Encode("boom\n"))}

InitWallet ==
    /\ phase = "startup"
    /\ plugins_dir = ServeDir
    /\ environ = <<>>
    /\ dotenv_file \in {NoFile, DotenvOf("BSC_PRIVATE_KEY=0xold\nRPC=a\n")}
    /\ plugin_registry = <<>>
    /\ all_tools = <<>>
    /\ metrics = Metrics0
    /\ help_invoked = <<>>
    /\ list_result = [returned |-> FALSE, tools |-> <<>>]
    /\ calls = <<>>
    /\ PluginsIdle

NextWallet ==
    \/ main
    \/ call_tool_handler(WalletRequestNames, RequestArguments, MaxCalls)
    \/ \E i \in 1..Len(calls) : create_subprocess_exec(i)
    \/ \E i \in 1..Len(calls) : process_exit(i, WalletExits)
    \/ \E i \in 1..Len(calls) : communicate(i)

SpecWallet == InitWallet /\ [][NextWallet]_vars

----------------------------------------------------------------------------
(* the slow-child specification: the child of the first call never exits; the
   event loop resumes every other coroutine that is ready, and requests keep
   arriving until MaxCalls have been accepted *)

\* the requests of the dispatch specification that reload nothing
SlowRequestNames == RequestNames \ WalletTools

NextSlow ==
    \/ main
    \/ call_tool_handler(SlowRequestNames, RequestArguments, MaxCalls)
    \/ \E i \in 1..Len(calls) : create_subprocess_exec(i)
    \/ \E i \in 2..Len(calls) : process_exit(i, Exits)
    \/ \E i \in 2..Len(calls) : communicate(i)

FairSlow ==
    /\ WF_vars(call_tool_handler(SlowRequestNames, RequestArguments, MaxCalls))
    /\ \A i \in 1..MaxCalls :
          /\ WF_vars(i <= Len(calls) /\ create_subprocess_exec(i))
          /\ WF_vars(1 < i /\ i <= Len(calls) /\ process_exit(i, Exits))
          /\ WF_vars(1 < i /\ i <= Len(calls) /\ communicate(i))

SpecSlow == Init /\ [][NextSlow]_vars /\ FairSlow

----------------------------------------------------------------------------
(* the cancellation specification: requests whose caller may disconnect *)

CancelRequestNames == {"alpha_foo", "health"}

NextCancel ==
    \/ main
    \/ call_tool_handler(CancelRequestNames, RequestArguments, MaxCalls)
    \/ \E i \in 1..Len(calls) : create_subprocess_exec(i)
    \/ \E i \in 1..Len(calls) : process_exit(i, Exits)
    \/ \E i \in 1..Len(calls) : communicate(i)
    \/ \E i \in 1..Len(calls) : cancel(i)

SpecCancel == Init /\ [][NextCancel]_vars

----------------------------------------------------------------------------
(* the health specification: tools/list and tools/call requests as the protocol
   test sends them, the name "health" with an empty arguments mapping *)

HealthRequestNames == {"health", "alpha_foo"}

NextHealth ==
    \/ main
    \/ list_tools_handler
    \/ call_tool_handler(HealthRequestNames, {<<>>}, MaxCalls)
    \/ \E i \in 1..Len(calls) : create_subprocess_exec(i)
    \/ \E i \in 1..Len(calls) : process_exit(i, Exits)
    \/ \E i \in 1..Len(calls) : communicate(i)

SpecHealth == Init /\ [][NextHealth]_vars

----------------------------------------------------------------------------
(* the .env specification: _update_env_file called with a key and a value on a
   .env file of any of the shapes below *)

\* one call of _update_env_file(key, value)
UpdateEnvFile(key, value) ==
    /\ dotenv_file' = update_env_file(dotenv_file, key, value)
    /\ UNCHANGED <<phase, plugins_dir, environ, plugin_registry, all_tools, metrics,
                   help_invoked, list_result, calls>>
    /\ UNCHANGED plugin_vars

EnvKeys == {"BSC_PRIVATE_KEY", "RPC"}

EnvValues == {"0xk1", "0xk2", "b"}

\* a missing file, an empty one, files with and without the keys, with the key
\* twice, indented, as the prefix of a longer key, with comments and blank lines,
\* and with a last line that has no trailing newline
EnvFiles ==
    {NoFile,
     DotenvOf(""),
     DotenvOf("RPC=a\n"),
     DotenvOf("RPC=a"),
     DotenvOf("BSC_PRIVATE_KEY=0xold\nRPC=a\n"),
     DotenvOf("BSC_PRIVATE_KEY=0xold\nRPC=a"),
     DotenvOf("RPC=a\nBSC_PRIVATE_KEY=0xold"),
     DotenvOf("  BSC_PRIVATE_KEY=0xold\n"),
     DotenvOf("BSC_PRIVATE_KEY=0xold\nX=1\nBSC_PRIVATE_KEY=0xolder\n"),
     DotenvOf("BSC_PRIVATE_KEY_OLD=1\n"),
     DotenvOf("# keys\n\nX=1\n")}

InitEnvFile ==
    /\ phase = "startup"
    /\ plugins_dir = ServeDir
    /\ environ = <<>>
    /\ dotenv_file \in EnvFiles
    /\ plugin_registry = <<>>
    /\ all_tools = <<>>
    /\ metrics = Metrics0
    /\ help_invoked = <<>>
    /\ list_result = [returned |-> FALSE, tools |-> <<>>]
    /\ calls = <<>>
    /\ PluginsIdle

NextEnvFile == \E key \in EnvKeys, value \in EnvValues : UpdateEnvFile(key, value)

SpecEnvFile == InitEnvFile /\ [][NextEnvFile]_vars

----------------------------------------------------------------------------
(* the approve specification: bsc_approve requests with the required arguments,
   with and without broadcast, with and without BSC_PRIVATE_KEY in os.environ *)

ApproveRequired ==
    <<[key |-> "token", value |-> StrV("0xt1")],
      [key |-> "spender", value |-> StrV("0xr1")],
      [key |-> "amount", value |-> IntV(500)]>>

ApproveArguments ==
    {ApproveRequired,
     Append(ApproveRequired, [key |-> "broadcast", value |-> BoolV(TRUE)]),
     Append(ApproveRequired, [key |-> "broadcast", value |-> BoolV(FALSE)]),
     Append(ApproveRequired, [key |-> "gasPriceGwei", value |-> IntV(5)]),
     SubSeq(ApproveRequired, 1, 2)}

BscDir == [exists |-> TRUE, entries |-> <<Plugin("bsc", HelpRun(0, HelpBscAll))>>]

InitApprove ==
    /\ phase = "startup"
    /\ plugins_dir = BscDir
    /\ environ \in {<<>>, <<[key |-> "BSC_PRIVATE_KEY", value |-> "0xk1"]>>}
    /\ dotenv_file = NoFile
    /\ plugin_registry = <<>>
    /\ all_tools = <<>>
    /\ metrics = Metrics0
    /\ help_invoked = <<>>
    /\ list_result = [returned |-> FALSE, tools |-> <<>>]
    /\ calls = <<>>
    /\ PluginsIdle

NextApprove ==
    \/ main
    \/ call_tool_handler({"bsc_approve"}, ApproveArguments, MaxCalls)
    \/ \E i \in 1..Len(calls) : create_subprocess_exec(i)
    \/ \E i \in 1..Len(calls) : bsc_main(i)
    \/ \E i \in 1..Len(calls) : communicate(i)
    \/ mine

SpecApprove == InitApprove /\ [][NextApprove]_vars

----------------------------------------------------------------------------
(* the liquidity specification: pancakeswap_add-liquidity-v2 requests for two
   tokens the router has no allowance for, the key in os.environ *)

LiquidityRequired ==
    <<[key |-> "token-a", value |-> StrV("0xt1")],
      [key |-> "token-b", value |-> StrV("0xt2")],
      [key |-> "amount-a-desired", value |-> IntV(5)],
      [key |-> "amount-b-desired", value |-> IntV(7)],
      [key |-> "to", value |-> StrV("0xr1")]>>

LiquidityArguments ==
    {Append(LiquidityRequired, [key |-> "broadcast", value |-> BoolV(TRUE)]),
     LiquidityRequired,
     SubSeq(LiquidityRequired, 1, 4)}

PancakeswapDir ==
    [exists |-> TRUE, entries |-> <<Plugin("pancakeswap", HelpRun(0, HelpPancakeswapAll))>>]

MaxLiquidityCalls == 1     \* add-liquidity-v2 requests per run

InitLiquidity ==
    /\ phase = "startup"
    /\ plugins_dir = PancakeswapDir
    /\ environ = <<[key |-> "BSC_PRIVATE_KEY", value |-> "0xk1"]>>
    /\ dotenv_file = NoFile
    /\ plugin_registry = <<>>
    /\ all_tools = <<>>
    /\ metrics = Metrics0
    /\ help_invoked = <<>>
    /\ list_result = [returned |-> FALSE, tools |-> <<>>]
    /\ calls = <<>>
    /\ procs = <<>>
    /\ \E n \in 0..2, a \in {0, 5} :
          chain = [Chain0 EXCEPT !.tx_count = n,
                                 !.allowance = <<[key |-> "0xT1", value |-> a]>>]
    /\ keystore = <<>>
    /\ pid_file = NoPidFile
    /\ os_processes = <<>>
    /\ runtime = NoRuntime

NextLiquidity ==
    \/ main
    \/ call_tool_handler({"pancakeswap_add-liquidity-v2"}, LiquidityArguments,
                         MaxLiquidityCalls)
    \/ \E i \in 1..Len(calls) : create_subprocess_exec(i)
    \/ \E i \in 1..Len(calls) : add_liquidity_v2(i)
    \/ \E i \in 1..Len(calls) : check_allowance(i)
    \/ \E i \in 1..Len(calls) : wait_for_transaction_receipt(i)
    \/ \E i \in 1..Len(calls) : send_add_liquidity(i)
    \/ \E i \in 1..Len(calls) : communicate(i)
    \/ mine

SpecLiquidity == InitLiquidity /\ [][NextLiquidity]_vars

----------------------------------------------------------------------------
(* the signer specification: create-wallet and import-private-key requests for
   one label, which the keystore may already hold *)

SignerArguments ==
    {<<[key |-> "label", value |-> StrV("w1")],
       [key |-> "password", value |-> StrV("pw")]>>,
     <<[key |-> "label", value |-> StrV("w1")],
       [key |-> "private-key", value |-> StrV("0xk9")],
       [key |-> "password", value |-> StrV("pw")]>>}

SignerDir == [exists |-> TRUE, entries |-> <<Plugin("signer", HelpRun(0, HelpSignerAll))>>]

InitSigner ==
    /\ phase = "startup"
    /\ plugins_dir = SignerDir
    /\ environ = <<>>
    /\ dotenv_file \in {NoFile, DotenvOf("BSC_PRIVATE_KEY=0xold\n")}
    /\ plugin_registry = <<>>
    /\ all_tools = <<>>
    /\ metrics = Metrics0
    /\ help_invoked = <<>>
    /\ list_result = [returned |-> FALSE, tools |-> <<>>]
    /\ calls = <<>>
    /\ procs = <<>>
    /\ chain = Chain0
    /\ keystore \in {<<>>, <<[key |-> "w1", value |-> KeystoreJson("0xold", "pw")]>>}
    /\ pid_file = NoPidFile
    /\ os_processes = <<>>
    /\ runtime = NoRuntime

NextSigner ==
    \/ main
    \/ call_tool_handler(WalletTools, SignerArguments, MaxCalls)
    \/ \E i \in 1..Len(calls) : create_subprocess_exec(i)
    \/ \E i \in 1..Len(calls) : signer_main(i)
    \/ \E i \in 1..Len(calls) : write_text(i)
    \/ \E i \in 1..Len(calls) : signer_update_env(i)
    \/ \E i \in 1..Len(calls) : communicate(i)

SpecSigner == InitSigner /\ [][NextSigner]_vars

----------------------------------------------------------------------------
(* the autonomous specification: vibing_start-autonomous and
   vibing_stop-autonomous requests in any order and overlap *)

AutonomousNames == {"vibing_start-autonomous", "vibing_stop-autonomous"}

AutonomousArguments == {<<>>, <<[key |-> "max-trades", value |-> IntV(3)]>>}

VibingDir ==
    [exists |-> TRUE,
     entries |-> <<Plugin("vibing", HelpRun(0, "Available commands:\n  start-autonomous Start autonomous trading script\n  stop-autonomous  Stop autonomous trading script\n  stop-all         Emergency stop - cancel all trades\n\nExamples:\n  python cli.py stop-autonomous\n"))>>]

InitAutonomous ==
    /\ phase = "startup"
    /\ plugins_dir = VibingDir
    /\ environ = <<>>
    /\ dotenv_file = NoFile
    /\ plugin_registry = <<>>
    /\ all_tools = <<>>
    /\ metrics = Metrics0
    /\ help_invoked = <<>>
    /\ list_result = [returned |-> FALSE, tools |-> <<>>]
    /\ calls = <<>>
    /\ PluginsIdle

NextAutonomous ==
    \/ main
    \/ call_tool_handler(AutonomousNames, AutonomousArguments, MaxCalls)
    \/ \E i \in 1..Len(calls) : create_subprocess_exec(i)
    \/ \E i \in 1..Len(calls) : start_autonomous(i)
    \/ \E i \in 1..Len(calls) : Popen(i)
    \/ \E i \in 1..Len(calls) : save_pid(i)
    \/ \E i \in 1..Len(calls) : stop_autonomous(i)
    \/ \E i \in 1..Len(calls) : kill_and_unlink(i)
    \/ \E i \in 1..Len(calls) : communicate(i)
    \/ \E pid \in 1..Len(os_processes) : runtime_exit(pid)

SpecAutonomous == InitAutonomous /\ [][NextAutonomous]_vars

----------------------------------------------------------------------------
(* the runtime specification: a VibingRuntime built by main() of runtime.py with
   any --max-trades, its cycles and monitor passes in any order *)

MaxTrades == 2

MaxDiscovered == 3

Symbols == {"BTCUSDT", "ETHUSDT", "BNBUSDT"}

\* the sequences over S of length up to n
SeqsUpTo(S, n) == UNION {[1..k -> S] : k \in 0..n}

InitRuntime ==
    /\ phase = "startup"
    /\ plugins_dir = VibingDir
    /\ environ = <<>>
    /\ dotenv_file = NoFile
    /\ plugin_registry = <<>>
    /\ all_tools = <<>>
    /\ metrics = Metrics0
    /\ help_invoked = <<>>
    /\ list_result = [returned |-> FALSE, tools |-> <<>>]
    /\ calls = <<>>
    /\ procs = <<>>
    /\ chain = Chain0
    /\ keystore = <<>>
    /\ pid_file = NoPidFile
    /\ os_processes = <<>>
    /\ runtime \in {VibingRuntime(max_trades) : max_trades \in -1..MaxTrades}

NextRuntime ==
    \/ \E can_trade \in BOOLEAN, discovered \in SeqsUpTo(Symbols, MaxDiscovered) :
          autonomous_cycle(can_trade, discovered)
    \/ \E closed \in SUBSET Symbols : monitor_trades(closed)
    \/ handle_shutdown

SpecRuntime == InitRuntime /\ [][NextRuntime]_vars

----------------------------------------------------------------------------
(* properties *)

Calls == {calls[i] : i \in 1..Len(calls)}

Returned == {c \in Calls : c.pc = "returned"}

\* the calls that got as far as building cmd_args
Dispatched == {c \in Calls : c.cmd_args # <<>>}

\* the number of separators in a tool name
SeparatorCount(tool_name) == Cardinality({i \in 1..Len(tool_name) : Ch(tool_name, i) = "_"})

NumReturned(outcomes) ==
    Cardinality({i \in 1..Len(calls) : calls[i].pc = "returned" /\ calls[i].outcome \in outcomes})

\* argv holds a directly followed by b
HasPair(argv, a, b) == \E i \in 1..(Len(argv) - 1) : argv[i] = a /\ argv[i + 1] = b

AllWhitespace(s) == \A i \in 1..Len(s) : Ch(s, i) \in Whitespace

\* r is t without its leading and trailing whitespace
IsStripOf(r, t) ==
    \/ r = "" /\ AllWhitespace(t)
    \/ /\ r # ""
       /\ Ch(r, 1) \notin Whitespace
       /\ Ch(r, Len(r)) \notin Whitespace
       /\ \E i \in 1..(Len(t) - Len(r) + 1) :
             /\ SubSeq(t, i, i + Len(r) - 1) = r
             /\ AllWhitespace(SubSeq(t, 1, i - 1))
             /\ AllWhitespace(SubSeq(t, i + Len(r), Len(t)))

\* C1: once every call-tool request has returned, with N success payloads and M
\* error payloads (the two rejections included), tool_calls_total = N + M,
\* tool_calls_success = N and tool_calls_error = M.
C1_CountersMatchPayloads ==
    (\A c \in Calls : c.pc = "returned") =>
        LET N == NumReturned({"success"})
            M == NumReturned({"invalid_name", "plugin_not_found", "failed", "exception"})
        IN /\ metrics.tool_calls_total = N + M
           /\ metrics.tool_calls_success = N
           /\ metrics.tool_calls_error = M

\* C2: a call whose name is not a tool name of the catalogue never spawns a
\* child process and is answered with an error.
C2_UnlistedNeverSpawns ==
    \A c \in Calls :
        c.tool_name \notin {all_tools[t].name : t \in 1..Len(all_tools)} =>
            /\ ~c.spawned
            /\ c.pc \in {"creating", "returned"}
            /\ (c.pc = "returned" => c.outcome # "success")

\* C4: a call with the name of a catalogue tool built from plugin p and command c
\* is dispatched to p's entry point with subcommand c.
C4_CatalogueNameDispatchesToOrigin ==
    \A t \in 1..Len(all_tools) : \A c \in Calls :
        c.tool_name = all_tools[t].name =>
            /\ c.plugin_name = all_tools[t].plugin
            /\ c.command = all_tools[t].command
            /\ c.cmd_args # <<>>
            /\ c.cmd_args[2] = CliPath(all_tools[t].plugin)
            /\ c.cmd_args[3] = all_tools[t].command

C3_ToolNamesDistinct ==
    list_result.returned =>
        \A i, j \in 1..Len(list_result.tools) :
            i # j => list_result.tools[i].name # list_result.tools[j].name

\* the deny-list in force: the names discover_plugins reads from the environment
DenyList == Range(disabled_plugins(environ))

\* the plugins directory without the entries named in the deny-list
DirWithoutDenied ==
    [plugins_dir EXCEPT !.entries = SelectSeq(@, LAMBDA e : e.name \notin DenyList)]

\* C6: after startup a plugin whose directory name is in the deny-list is not in
\* the registry, has no tool in the catalogue and had no help run; the registry
\* and the catalogue are those of the same directory without the denied entries.
C6_DeniedPluginsExcluded ==
    phase = "serving" =>
        /\ \A n \in DenyList :
              /\ n \notin Keys(plugin_registry)
              /\ n \notin Range(help_invoked)
              /\ \A t \in 1..Len(all_tools) : all_tools[t].plugin # n
        /\ plugin_registry = discover_plugins(DirWithoutDenied, environ)
        /\ all_tools = RegisterLoop(DirWithoutDenied, discover_plugins(DirWithoutDenied, environ))
        /\ help_invoked = KeySeq(discover_plugins(DirWithoutDenied, environ))

\* a denied plugin that lists commands comes first, and another plugin is registered
C6_Witness ==
    /\ phase = "serving"
    /\ Len(plugins_dir.entries) = 2
    /\ LET e == plugins_dir.entries[1] IN
          /\ e.name \in DenyList
          /\ e.is_dir /\ e.has_cli
          /\ ~e.help.raises /\ e.help.returncode = 0
          /\ ExtractCommands(e.help.stdout) # <<>>
    /\ Len(plugin_registry) = 1
    /\ all_tools # <<>>

\* the mapping {symbol: "BTC", broadcast: true, gasPriceGwei: 5}, in any order
ExampleItems ==
    {[key |-> "symbol", value |-> StrV("BTC")],
     [key |-> "broadcast", value |-> BoolV(TRUE)],
     [key |-> "gasPriceGwei", value |-> IntV(5)]}

IsExample(arguments) == Len(arguments) = 3 /\ Range(arguments) = ExampleItems

\* C7 as stated: for the example mapping the argv holds --symbol BTC, --broadcast
\* and --gas-price-gwei 5.
C7_ExampleUsesKebabFlag ==
    \A c \in Dispatched :
        IsExample(c.arguments) =>
            /\ HasPair(c.cmd_args, "--symbol", "BTC")
            /\ "--broadcast" \in Range(c.cmd_args)
            /\ HasPair(c.cmd_args, "--gas-price-gwei", "5")

\* C7 as amended: for the example mapping the argv holds --symbol BTC, --broadcast
\* and --gasPriceGwei 5: the key is emitted as it is, and nothing else follows the
\* three leading elements.
C7_ExampleUsesKeyVerbatim ==
    \A c \in Dispatched :
        IsExample(c.arguments) =>
            /\ HasPair(c.cmd_args, "--symbol", "BTC")
            /\ "--broadcast" \in Range(c.cmd_args)
            /\ HasPair(c.cmd_args, "--gasPriceGwei", "5")
            /\ "--gas-price-gwei" \notin Range(c.cmd_args)
            /\ Len(c.cmd_args) = 8

C7_Witness == \E c \in Calls : IsExample(c.arguments) /\ c.spawned

\* what one item of the mapping adds to the argv
FlagsOfItem(item) ==
    IF item.key = "request_heartbeat" THEN <<>>
    ELSE IF item.value = BoolV(TRUE) THEN <<"--" \o item.key>>
    ELSE IF item.value = BoolV(FALSE) THEN <<>>
    ELSE <<"--" \o item.key, PyStr(item.value)>>

RECURSIVE FlagsOf(_)
FlagsOf(arguments) ==
    IF arguments = <<>> THEN <<>>
    ELSE FlagsOfItem(Head(arguments)) \o FlagsOf(Tail(arguments))

\* C8: the argv is [interpreter, entry path, command] followed, in the mapping's
\* order, by --k for a key whose value is true, nothing for one whose value is
\* false, and --k, str(v) for any other value, the reserved key adding nothing.
C8_ArgvIsFlagsInOrder ==
    \A c \in Dispatched :
        c.cmd_args = <<sys_executable, Lookup(plugin_registry, c.plugin_name).path, c.command>>
                     \o FlagsOf(c.arguments)

\* a spawned call whose mapping holds a true, a false and a value of another type
C8_Witness ==
    \E c \in Calls :
        /\ c.spawned
        /\ Len(c.arguments) = 3
        /\ "request_heartbeat" \notin Keys(c.arguments)
        /\ \E i, j, k \in 1..3 :
              /\ c.arguments[i].value = BoolV(TRUE)
              /\ c.arguments[j].value = BoolV(FALSE)
              /\ c.arguments[k].value.t = "int"
        /\ Len(c.cmd_args) = 6

\* the mapping without the reserved key
WithoutReserved(arguments) == SelectSeq(arguments, LAMBDA item : item.key # "request_heartbeat")

\* C9: when the mapping holds request_heartbeat, --request_heartbeat is not in
\* the argv, the argv is the one built from the mapping without that key, and
\* the reserved key's value is in the argv only where another element equals it.
C9_ReservedKeyDropped ==
    \A c \in Dispatched :
        "request_heartbeat" \in Keys(c.arguments) =>
            /\ "--request_heartbeat" \notin Range(c.cmd_args)
            /\ c.cmd_args = BuildCmdArgs(Lookup(plugin_registry, c.plugin_name).path,
                                         c.command, WithoutReserved(c.arguments))
            /\ Len(c.cmd_args) = 3 + Len(FlagsOf(WithoutReserved(c.arguments)))
            /\ \A i \in 1..Len(c.arguments) :
                  (/\ c.arguments[i].key = "request_heartbeat"
                   /\ PyStr(c.arguments[i].value) \notin
                          Range(<<sys_executable, c.cmd_args[2], c.command>>
                                \o FlagsOf(WithoutReserved(c.arguments))))
                  => PyStr(c.arguments[i].value) \notin Range(c.cmd_args)

\* a spawned call whose mapping holds the reserved key with a value that is not a
\* boolean, between two other keys
C9_Witness ==
    \E c \in Calls :
        /\ c.spawned
        /\ Len(c.arguments) = 3
        /\ c.arguments[2].key = "request_heartbeat"
        /\ c.arguments[2].value.t = "int"
        /\ Len(c.cmd_args) = 7

\* C10 as stated: when the child exits with code 0 the text returned is exactly
\* its captured stdout (decoded, where it is UTF-8), and the call counts as a
\* success.
C10_SuccessTextIsStdout ==
    \A c \in Returned :
        (c.exited /\ c.returncode = 0 /\ DecodeOk(c.stdout) /\ DecodeOk(c.stderr)) =>
            /\ c.result = Decode(c.stdout)
            /\ c.outcome = "success"

\* C10 as amended: when the child exits with code 0 and its stdout and stderr are
\* UTF-8, the text returned is the decoded stdout without its leading and
\* trailing whitespace and tool_calls_success is incremented; when one of them is
\* not UTF-8 the call returns the exception's error text and counts as an error.
C10_SuccessTextIsStrippedStdout ==
    /\ \A c \in Returned :
          (c.exited /\ c.returncode = 0) =>
              IF DecodeOk(c.stdout) /\ DecodeOk(c.stderr)
              THEN c.outcome = "success" /\ IsStripOf(c.result, Decode(c.stdout))
              ELSE c.outcome = "exception" /\ StartsWith(c.result, "Error executing tool ")
    /\ metrics.tool_calls_success =
          Cardinality({i \in 1..Len(calls) :
                          /\ calls[i].pc = "returned" /\ calls[i].exited
                          /\ calls[i].returncode = 0
                          /\ DecodeOk(calls[i].stdout) /\ DecodeOk(calls[i].stderr)})
    /\ metrics.tool_calls_error >=
          Cardinality({i \in 1..Len(calls) :
                          /\ calls[i].pc = "returned" /\ calls[i].exited
                          /\ calls[i].returncode = 0
                          /\ ~(DecodeOk(calls[i].stdout) /\ DecodeOk(calls[i].stderr))})

C10_Witness ==
    /\ \E c \in Returned :
          /\ c.exited /\ c.returncode = 0
          /\ c.stdout = Encode("{\"ok\":true}\n")
          /\ c.result = "{\"ok\":true}"
    /\ \E c \in Returned : c.exited /\ c.returncode = 0 /\ c.outcome = "exception"
    /\ metrics.tool_calls_success = 1

\* the decimal digits of n, least significant last
RECURSIVE DecimalOf(_)
DecimalOf(n) ==
    IF n < 10 THEN SubSeq("0123456789", n + 1, n + 1)
    ELSE DecimalOf(n \div 10) \o SubSeq("0123456789", (n % 10) + 1, (n % 10) + 1)

\* call i returns in this step from a child that exited with a non-zero code
ReturnsNonZero(i) ==
    /\ calls[i].pc = "exited" /\ calls'[i].pc = "returned"
    /\ calls[i].returncode # 0

\* ... and whose output is UTF-8
ReturnsFailed(i) ==
    /\ ReturnsNonZero(i)
    /\ DecodeOk(calls[i].stdout) /\ DecodeOk(calls[i].stderr)

\* the text after "Error: " in what call i returns in this step
ErrorBody(i) == SubSeq(calls'[i].result, 8, Len(calls'[i].result))

\* C11 as stated: when the child exits with a non-zero code the text returned is
\* built from stderr if stderr is not empty, else from stdout if stdout is not
\* empty, else it cites the exit code; tool_calls_error is incremented and
\* tool_calls_success is not.
C11_FailureTextFromNonEmptyStream ==
    [][\A i \in 1..Len(calls) :
          ReturnsFailed(i) =>
              /\ StartsWith(calls'[i].result, "Error: ")
              /\ IF calls[i].stderr # <<>>
                 THEN IsStripOf(ErrorBody(i), Decode(calls[i].stderr))
                 ELSE IF calls[i].stdout # <<>>
                 THEN IsStripOf(ErrorBody(i), Decode(calls[i].stdout))
                 ELSE ErrorBody(i) = "Command failed with return code "
                                     \o DecimalOf(calls[i].returncode)
              /\ metrics'.tool_calls_error = metrics.tool_calls_error + 1
              /\ metrics'.tool_calls_success = metrics.tool_calls_success]_vars

\* C11 as amended: when the child exits with a non-zero code the text returned is
\* "Error: " followed by stderr without its surrounding whitespace if that is not
\* empty, else by stdout without its surrounding whitespace if that is not empty,
\* else by the message citing the exit code; when stdout or stderr is not UTF-8
\* the text is that of the exception; in each case tool_calls_error is incremented
\* and tool_calls_success is not.
C11_FailureTextFromNonBlankStream ==
    [][\A i \in 1..Len(calls) :
          /\ (ReturnsNonZero(i) /\ ~ReturnsFailed(i)) =>
                 /\ StartsWith(calls'[i].result,
                               "Error executing tool " \o calls[i].tool_name \o ": ")
                 /\ metrics'.tool_calls_error = metrics.tool_calls_error + 1
                 /\ metrics'.tool_calls_success = metrics.tool_calls_success
          /\ ReturnsFailed(i) =>
              /\ StartsWith(calls'[i].result, "Error: ")
              /\ IF ~AllWhitespace(Decode(calls[i].stderr))
                 THEN IsStripOf(ErrorBody(i), Decode(calls[i].stderr))
                 ELSE IF ~AllWhitespace(Decode(calls[i].stdout))
                 THEN IsStripOf(ErrorBody(i), Decode(calls[i].stdout))
                 ELSE ErrorBody(i) = "Command failed with return code "
                                     \o DecimalOf(calls[i].returncode)
              /\ metrics'.tool_calls_error = metrics.tool_calls_error + 1
              /\ metrics'.tool_calls_success = metrics.tool_calls_success]_vars

\* calls have returned the text of stderr where both streams held text, and the
\* text of stdout where stderr held a lone newline
C11_Witness ==
    /\ \E c \in Returned :
          /\ c.returncode = 1 /\ c.stdout # <<>> /\ c.stderr = Encode("boom\n")
          /\ c.result = "Error: boom"
    /\ \E c \in Returned :
          /\ c.returncode = 1 /\ c.stderr = Encode("\n")
          /\ c.result = "Error: partial"
    /\ metrics.tool_calls_error = 2
    /\ metrics.tool_calls_success = 0

\* call i returns in this step through the except clause: create_subprocess_exec
\* raised, or decoding the output did
ReturnsException(i) ==
    /\ calls[i].pc \in {"creating", "exited"}
    /\ calls'[i].pc = "returned"
    /\ \/ calls[i].pc = "creating"
       \/ ~DecodeOk(calls[i].stdout) \/ ~DecodeOk(calls[i].stderr)

\* C12: when creating or running the subprocess raises, the call returns the
\* text describing the exception, tool_calls_error goes up by exactly one, the
\* registry, the catalogue and every other call are left as they were, and the
\* dispatcher keeps serving.
C12_ExceptionIsContained ==
    [][\A i \in 1..Len(calls) :
          ReturnsException(i) =>
              /\ \E e \in {SpawnError, DecodeError} :
                    calls'[i].result = "Error executing tool " \o calls[i].tool_name
                                       \o ": " \o e
              /\ metrics'.tool_calls_error = metrics.tool_calls_error + 1
              /\ metrics'.tool_calls_success = metrics.tool_calls_success
              /\ metrics'.tool_calls_total = metrics.tool_calls_total
              /\ plugin_registry' = plugin_registry
              /\ all_tools' = all_tools
              /\ phase' = "serving"
              /\ Len(calls') = Len(calls)
              /\ \A j \in 1..Len(calls) : j # i => calls'[j] = calls[j]]_vars

\* a call whose spawn raised, and a later call of the same tool that succeeded
C12_Witness ==
    /\ Len(calls) = 2
    /\ calls[1].pc = "returned" /\ ~calls[1].spawned
    /\ calls[1].result = ExceptionText(calls[1].tool_name, SpawnError)
    /\ calls[2].tool_name = calls[1].tool_name
    /\ calls[2].pc = "returned" /\ calls[2].outcome = "success"
    /\ metrics.tool_calls_error = 1
    /\ metrics.tool_calls_success = 1

\* the bindings KEY=VALUE of the .env file as it is now
FileBindings == Range(DotenvValues(FileLines(dotenv_file.text), <<>>))

\* os.environ after this step is os.environ before it overridden by .env
EnvReloaded ==
    /\ \A b \in FileBindings : HasKey(environ', b.key) /\ Lookup(environ', b.key) = b.value
    /\ \A k \in Keys(environ) \ {b.key : b \in FileBindings} :
          HasKey(environ', k) /\ Lookup(environ', k) = Lookup(environ, k)
    /\ Keys(environ') = Keys(environ) \cup {b.key : b \in FileBindings}

\* call i returns in this step from a wallet tool whose child exited with code 0
WalletExitZero(i) ==
    /\ calls[i].pc = "exited" /\ calls'[i].pc = "returned"
    /\ calls[i].tool_name \in {"signer_create-wallet", "signer_import-private-key"}
    /\ calls[i].returncode = 0

\* a request accepted in this step hands os.environ as it is now to its child
NewCallGetsEnviron ==
    (Len(calls') = Len(calls) + 1 /\ calls'[Len(calls')].pc = "creating") =>
        calls'[Len(calls')].env = environ

C14_OthersReturnWhileOneWaits ==
    (phase = "serving") ~>
        [](/\ Len(calls) = MaxCalls
           /\ \A j \in 2..Len(calls) : calls[j].pc = "returned")

\* the child of the first call is still running and the second call, accepted
\* after it, has spawned its own child and returned that child's output
C14_Witness ==
    /\ Len(calls) >= 2
    /\ calls[1].pc = "running"
    /\ calls[2].spawned /\ calls[2].exited
    /\ calls[2].pc = "returned" /\ calls[2].outcome = "success"
    /\ calls[2].result = "{\"ok\":true}"

\* call i is cancelled in this step while its child is running
CancelledWhileRunning(i) ==
    /\ calls[i].pc = "running" /\ calls'[i].pc = "cancelled"

\* C15: when a call is cancelled while its child is running, the child is left
\* running (it is not killed: no exit status is forced on it), it can still run
\* to its own exit, where its status is collected, and the call returns no
\* result and counts neither as a success nor as an error.
C15_CancelledChildRunsOn ==
    [][\A i \in 1..Len(calls) :
          /\ CancelledWhileRunning(i) =>
                /\ calls'[i].spawned /\ ~calls'[i].exited
                /\ calls'[i].result = ""
                /\ metrics' = metrics
          /\ (calls[i].pc = "cancelled" /\ calls[i].spawned /\ ~calls[i].exited) =>
                /\ calls'[i].pc = "cancelled"
                /\ calls'[i].result = ""
                /\ calls'[i].exited =>
                      \E x \in Exits :
                          /\ calls'[i].returncode = x.returncode
                          /\ calls'[i].stdout = x.stdout
                          /\ calls'[i].stderr = x.stderr
                /\ calls'[i] # calls[i] => metrics' = metrics /\ environ' = environ
          /\ (calls[i].pc = "cancelled" /\ calls[i].exited) => calls'[i] = calls[i]]_vars

\* a call was cancelled while its child was running; the child then ran to its
\* own exit with code 0 and output, and nothing of it was returned or counted
C15_Witness ==
    \E i \in 1..Len(calls) :
        /\ calls[i].pc = "cancelled"
        /\ calls[i].spawned /\ calls[i].exited
        /\ calls[i].returncode = 0 /\ calls[i].stdout = Encode("{\"ok\":true}\n")
        /\ calls[i].result = ""
        /\ metrics.tool_calls_total = Len(calls)
        /\ metrics.tool_calls_success = 0 /\ metrics.tool_calls_error = 0

\* the text has a line whose trimmed text starts the commands section
HasCommandsSection(text) ==
    \E line \in Range(Split(text, "\n")) : StartsWith(Strip(line), "Available commands:")

\* a plugin whose help run times out or raises, exits non-zero, or prints no
\* commands section
HelpFails(e) ==
    /\ e.is_dir /\ e.has_cli
    /\ \/ e.help.raises
       \/ e.help.returncode # 0
       \/ ~HasCommandsSection(e.help.stdout)

\* the plugins directory without the plugins whose help fails
DirWithoutFailing ==
    [plugins_dir EXCEPT !.entries = SelectSeq(@, LAMBDA e : ~HelpFails(e))]

\* the catalogue the registration of main() computes from the state it starts in
StartupCatalogue ==
    RegisterLoop(plugins_dir,
                 discover_plugins(plugins_dir, load_dotenv(environ, dotenv_file, FALSE)))

\* C16: whatever the help runs do, the registration of startup computes a
\* catalogue; a plugin whose help run fails has no tool in it, and the catalogue
\* is the one the same directory without those plugins gives.
C16_FailingHelpIsIsolated ==
    /\ phase = "startup" =>
          \A t \in 1..Len(StartupCatalogue) :
              ~HelpFails(EntryOf(plugins_dir, StartupCatalogue[t].plugin))
    /\ phase = "serving" =>
          /\ \A i \in 1..Len(plugins_dir.entries) :
                HelpFails(plugins_dir.entries[i]) =>
                    \A t \in 1..Len(all_tools) :
                        all_tools[t].plugin # plugins_dir.entries[i].name
          /\ all_tools = RegisterLoop(DirWithoutFailing,
                                      discover_plugins(DirWithoutFailing, environ))
          /\ metrics.tools_registered = Len(all_tools)

\* a plugin whose help exits non-zero after printing a commands section stands
\* before a plugin whose help lists commands, and only the second has tools
C16_Witness ==
    /\ phase = "serving"
    /\ Len(plugins_dir.entries) = 2
    /\ HelpFails(plugins_dir.entries[1])
    /\ plugins_dir.entries[1].help.returncode = 1
    /\ HasCommandsSection(plugins_dir.entries[1].help.stdout)
    /\ Len(plugin_registry) = 2
    /\ all_tools # <<>>
    /\ \A t \in 1..Len(all_tools) : all_tools[t].plugin = plugins_dir.entries[2].name

\* line k of the help text opens the commands section, or closes it
IsMarker(lines, k) == StartsWith(Strip(lines[k]), "Available commands:")

IsTerminator(lines, k) ==
    /\ ~IsMarker(lines, k)
    /\ AllWhitespace(lines[k]) \/ StartsWith(Strip(lines[k]), "Examples")

\* line k comes after a marker line with no terminator line in between
InSection(lines, k) ==
    \E m \in 1..(k - 1) :
        /\ IsMarker(lines, m)
        /\ \A t \in (m + 1)..(k - 1) : ~IsTerminator(lines, t)

\* the first whitespace-separated token of a line that is not blank
FirstToken(line) ==
    LET t == LStrip(line) IN SubSeq(t, 1, WordLen(t, 1))

\* line k yields a command; indent is the set of prefixes that count as indentation
YieldsCommand(lines, k, indent) ==
    /\ InSection(lines, k)
    /\ ~IsMarker(lines, k) /\ ~IsTerminator(lines, k)
    /\ \E p \in indent : StartsWith(lines[k], p)
    /\ FirstToken(lines[k]) \notin {"usage:", "options:", "Available", "Examples:"}

RECURSIVE TokensFrom(_, _, _)
TokensFrom(lines, k, indent) ==
    IF k > Len(lines) THEN <<>>
    ELSE (IF YieldsCommand(lines, k, indent) THEN <<FirstToken(lines[k])>> ELSE <<>>)
         \o TokensFrom(lines, k + 1, indent)

\* the tool names of one plugin, then of the whole registry, by the rule above
RECURSIVE NamesOf(_, _)
NamesOf(plugin_name, tokens) ==
    IF tokens = <<>> THEN <<>>
    ELSE <<plugin_name \o "_" \o Head(tokens)>> \o NamesOf(plugin_name, Tail(tokens))

RECURSIVE NamesByRule(_, _)
NamesByRule(registry, indent) ==
    IF registry = <<>> THEN <<>>
    ELSE NamesOf(Head(registry).key,
                 TokensFrom(Split(get_plugin_help(plugins_dir, Head(registry).key), "\n"),
                            1, indent))
         \o NamesByRule(Tail(registry), indent)

CatalogueNames == [t \in 1..Len(all_tools) |-> all_tools[t].name]

\* plugin alpha lists foo and bar, plugin beta lists baz, and there is no other
AlphaBetaScenario ==
    /\ Len(plugins_dir.entries) = 2
    /\ Plugin("alpha", HelpRun(0, "Available commands:\n  foo\n  bar\n"))
          \in Range(plugins_dir.entries)
    /\ Plugin("beta", HelpRun(0, "Available commands:\n  baz\n"))
          \in Range(plugins_dir.entries)

\* C17 as stated: the commands of a help text are, in order, the first tokens of
\* the lines that come after an "Available commands:" line and before the next
\* blank or "Examples" line, start with whitespace, and whose first token is not a
\* reserved word; alpha listing foo, bar and beta listing baz give exactly
\* {alpha_foo, alpha_bar, beta_baz}.
C17_CommandsFromIndentedLines ==
    phase = "serving" =>
        /\ CatalogueNames = NamesByRule(plugin_registry, {" ", "\t"})
        /\ AlphaBetaScenario => Range(CatalogueNames) = {"alpha_foo", "alpha_bar", "beta_baz"}

\* C17 as amended: as stated, but the lines taken are those that start with two
\* spaces.
C17_CommandsFromTwoSpaceLines ==
    phase = "serving" =>
        /\ CatalogueNames = NamesByRule(plugin_registry, {"  "})
        /\ AlphaBetaScenario =>
              /\ Range(CatalogueNames) = {"alpha_foo", "alpha_bar", "beta_baz"}
              /\ Len(CatalogueNames) = 3

\* the alpha and beta of the example are registered and list-tools has answered;
C17_Witness ==
    /\ phase = "serving"
    /\ AlphaBetaScenario
    /\ list_result.returned
    /\ {list_result.tools[t].name : t \in 1..Len(list_result.tools)}
          = {"alpha_foo", "alpha_bar", "beta_baz"}

\* the entries of the schema table with the given name
TableEntries(tool_name) ==
    {tool_schemas[i] : i \in {j \in 1..Len(tool_schemas) : tool_schemas[j].name = tool_name}}

\* C18: a tool whose name is in tool_schemas carries that entry's description,
\* properties and required list; any other tool carries the description naming
\* its plugin and command and an object schema with no properties, no required
\* names and additionalProperties permitted.
C18_SchemaFromTableOrGeneric ==
    \A t \in 1..Len(all_tools) :
        LET tool == all_tools[t] IN
        /\ tool.name = tool.plugin \o "_" \o tool.command
        /\ tool.inputSchema.type = "object"
        /\ IF TableEntries(tool.name) # {}
           THEN \A e \in TableEntries(tool.name) :
                   /\ tool.description = e.description
                   /\ tool.inputSchema.properties = e.properties
                   /\ tool.inputSchema.required = e.required
           ELSE /\ tool.description =
                      "Execute " \o tool.plugin \o " " \o tool.command \o " command"
                /\ tool.inputSchema.properties = <<>>
                /\ tool.inputSchema.required = <<>>
                /\ tool.inputSchema.additionalProperties = TRUE

\* the catalogue holds a tool of the table with its two required names, and a
\* tool the table does not have
C18_Witness ==
    /\ phase = "serving"
    /\ \E t \in 1..Len(all_tools) :
          /\ all_tools[t].name = "signer_import-private-key"
          /\ all_tools[t].inputSchema.required = <<"label", "private-key">>
          /\ Len(all_tools[t].inputSchema.properties) = 2
    /\ \E t \in 1..Len(all_tools) :
          /\ all_tools[t].name = "vibing_create-wallet"
          /\ all_tools[t].description = "Execute vibing create-wallet command"

\* the keys of a schema's properties
PropertyKeys(properties) == {properties[i].key : i \in 1..Len(properties)}

\* C19: in every entry of tool_schemas and in the schema of every tool of the
\* catalogue, each name of the required list is a key of the properties.
C19_RequiredAreProperties ==
    /\ \A i \in 1..Len(tool_schemas) :
          Range(tool_schemas[i].required) \subseteq PropertyKeys(tool_schemas[i].properties)
    /\ \A t \in 1..Len(all_tools) :
          Range(all_tools[t].inputSchema.required)
              \subseteq PropertyKeys(all_tools[t].inputSchema.properties)

\* the catalogue holds the tool with the longest required list, a tool of the
\* table with none, and a tool with the fallback schema
C19_Witness ==
    /\ phase = "serving"
    /\ \E t \in 1..Len(all_tools) :
          /\ all_tools[t].name = "pancakeswap_add-liquidity-v2"
          /\ Len(all_tools[t].inputSchema.required) = 5
    /\ \E t \in 1..Len(all_tools) :
          /\ all_tools[t].name = "pancakeswap_status"
          /\ all_tools[t].inputSchema.additionalProperties
    /\ \E t \in 1..Len(all_tools) :
          /\ all_tools[t].name = "bsc_gas-price"
          /\ all_tools[t].inputSchema.required = <<>>
          /\ ~all_tools[t].inputSchema.additionalProperties

\* the characters of ^[a-zA-Z0-9_-]+$
NameCharset ==
    {"a", "b", "c", "d", "e", "f", "g", "h", "i", "j", "k", "l", "m",
     "n", "o", "p", "q", "r", "s", "t", "u", "v", "w", "x", "y", "z",
     "A", "B", "C", "D", "E", "F", "G", "H", "I", "J", "K", "L", "M",
     "N", "O", "P", "Q", "R", "S", "T", "U", "V", "W", "X", "Y", "Z",
     "0", "1", "2", "3", "4", "5", "6", "7", "8", "9", "_", "-"}

MatchesNameCharset(name) ==
    /\ Len(name) > 0
    /\ \A i \in 1..Len(name) : Ch(name, i) \in NameCharset

\* C20: every tool name of the catalogue consists only of letters, digits,
\* underscores and hyphens, whatever the plugin directories are called and
\* whatever tokens their help texts list.
C20_ToolNamesMatchCharset ==
    \A t \in 1..Len(all_tools) : MatchesNameCharset(all_tools[t].name)

\* whether text holds part as a substring
HasSubstring(text, part) ==
    \E i \in 1..(Len(text) - Len(part) + 1) : SubSeq(text, i, i + Len(part) - 1) = part

\* C21: every list returned by list_tools_handler holds a tool named health with
\* the description "Check server health and plugin status", and a call of health
\* with empty arguments returns a JSON text with status "healthy" and the fields
\* plugins and plugin_names.
C21_HealthListedAndAnswered ==
    /\ list_result.returned =>
          \E t \in 1..Len(list_result.tools) :
             /\ list_result.tools[t].name = "health"
             /\ list_result.tools[t].description = "Check server health and plugin status"
    /\ \A i \in 1..Len(calls) :
          (calls[i].tool_name = "health" /\ calls[i].arguments = <<>>
              /\ calls[i].pc = "returned") =>
             /\ HasSubstring(calls[i].result, "\"status\": \"healthy\"")
             /\ HasSubstring(calls[i].result, "\"plugins\"")
             /\ HasSubstring(calls[i].result, "\"plugin_names\"")

\* C24: once main has run discovery and registration, plugins_discovered is the
\* number of plugins in the registry (0, with an empty registry, when the plugins
\* directory is missing), tools_registered is the number of tools of the catalogue
\* and of every list list-tools returns, and the catalogue holds one tool per
\* command token of the registered plugins' help texts.
C24_MetricsMatchRegistryAndCatalogue ==
    phase = "serving" =>
        /\ metrics.plugins_discovered = Len(plugin_registry)
        /\ ~plugins_dir.exists =>
              plugin_registry = <<>> /\ metrics.plugins_discovered = 0
        /\ metrics.tools_registered = Len(all_tools)
        /\ list_result.returned => metrics.tools_registered = Len(list_result.tools)
        /\ Len(all_tools) = Len(NamesByRule(plugin_registry, {"  "}))

\* two plugins were discovered beside an entry that was not, one of them lists a
\* command twice, and list-tools has returned the catalogue
C24_Witness ==
    /\ phase = "serving"
    /\ list_result.returned
    /\ Len(plugins_dir.entries) > Len(plugin_registry)
    /\ metrics.plugins_discovered = 1
    /\ metrics.tools_registered = 2
    /\ Len(list_result.tools) = 2
    /\ list_result.tools[1].name = list_result.tools[2].name

\* C25: once the server is serving, no step of a call-tool request (whatever its
\* outcome) and no list-tools request changes plugin_registry or all_tools, and
\* every list that list-tools has returned is the catalogue as main built it.
C25_RegistryAndCatalogueReadOnly ==
    [][phase = "serving" =>
          /\ plugin_registry' = plugin_registry
          /\ all_tools' = all_tools
          /\ list_result.returned => list_result.tools = all_tools
          /\ list_result'.returned => list_result'.tools = all_tools]_vars

\* list-tools has answered and two calls have returned, one from the success
\* branch and one from the except clause, beside a non-empty catalogue
C25_Witness ==
    /\ phase = "serving"
    /\ list_result.returned
    /\ list_result.tools = all_tools
    /\ all_tools # <<>>
    /\ \E i, j \in 1..Len(calls) :
          /\ calls[i].pc = "returned" /\ calls[i].outcome = "success"
          /\ calls[j].pc = "returned" /\ calls[j].outcome \in {"exception", "failed"}

\* the calls that have returned with one of the given outcomes
ReturnedWith(outcomes) ==
    {i \in 1..Len(calls) : calls[i].pc = "returned" /\ calls[i].outcome \in outcomes}

\* C26: however the calls interleave at create_subprocess_exec and communicate,
\* every increment is kept: tool_calls_total is the number of requests accepted,
\* tool_calls_success the number returned from the success branch,
\* tool_calls_error the number returned from the failure branch or the except
\* clause; and tool_calls_success + tool_calls_error <= tool_calls_total.
C26_NoIncrementLost ==
    /\ metrics.tool_calls_total = Len(calls)
    /\ metrics.tool_calls_success = Cardinality(ReturnedWith({"success"}))
    /\ metrics.tool_calls_error = Cardinality(ReturnedWith({"failed", "exception"}))
    /\ metrics.tool_calls_success + metrics.tool_calls_error <= metrics.tool_calls_total

\* a later call was spawned and has returned, counted, while an earlier one still
\* awaits its child
C26_Witness ==
    \E i, j \in 1..Len(calls) :
        /\ i < j
        /\ calls[i].pc \in {"running", "exited"}
        /\ calls[j].spawned /\ calls[j].pc = "returned"
        /\ metrics.tool_calls_success + metrics.tool_calls_error = 1
        /\ metrics.tool_calls_total = 2

\* the lines of a text without their line ends
TextLines(text) ==
    LET parts == Split(text, "\n") IN
    IF parts # <<>> /\ parts[Len(parts)] = "" THEN SubSeq(parts, 1, Len(parts) - 1) ELSE parts

\* the lines of a .env file, none for a missing file
LinesOfFile(file) == IF file.exists THEN TextLines(file.text) ELSE <<>>

\* whether a line binds the key: it starts, after leading blanks, with key=
BindsKey(line, key) == StartsWith(Strip(line), key \o "=")

\* C28: after _update_env_file(key, value) the file has a line that is exactly
\* key=value, no line that starts with key= holds another value, and the other
\* lines are those of the file before, unchanged and in their order.
C28_UpdateSetsKeyKeepsRest ==
    [][\A key \in EnvKeys, value \in EnvValues :
          UpdateEnvFile(key, value) =>
             LET before == LinesOfFile(dotenv_file)
                 after  == LinesOfFile(dotenv_file')
             IN /\ \E k \in 1..Len(after) : after[k] = key \o "=" \o value
                /\ \A k \in 1..Len(after) :
                      StartsWith(after[k], key \o "=") => after[k] = key \o "=" \o value
                /\ SelectSeq(after, LAMBDA line : ~BindsKey(line, key))
                      = SelectSeq(before, LAMBDA line : ~BindsKey(line, key))]_vars

\* C22: a bsc_approve call that omits broadcast, made with BSC_PRIVATE_KEY in the
\* environment and the required arguments, signs and broadcasts the approve
\* transaction: it returns a transaction hash, not an unsigned transaction.
C22_ApproveBroadcastsByDefault ==
    \A i \in 1..Len(calls) :
        (/\ calls[i].tool_name = "bsc_approve"
         /\ calls[i].pc = "returned"
         /\ calls[i].outcome = "success"
         /\ ~HasKey(calls[i].arguments, "broadcast")
         /\ HasKey(calls[i].env, "BSC_PRIVATE_KEY")) =>
            /\ StartsWith(calls[i].result, "{\"txHash\"")
            /\ ~StartsWith(calls[i].result, "{\"unsignedTx\"")
            /\ \E tx \in Range(chain.pending) \cup {m.tx : m \in Range(chain.mined)} :
                  tx.fn = "approve"

\* the transactions the node has, in its pool or in a block
ChainTxs == Range(chain.pending) \cup {m.tx : m \in Range(chain.mined)}

\* C23: add-liquidity-v2 with broadcast sends each approval with the account's
\* next valid nonce (the pool never holds a nonce the node cannot mine next),
\* submits addLiquidity only when the router's allowance for both tokens has been
\* granted by mined approvals, and submits none when an approval has failed.
C23_ApprovalsMinedBeforeAddLiquidity ==
    /\ \A k \in 1..Len(chain.pending) :
          chain.pending[k].nonce < chain.tx_count + Len(chain.pending)
    /\ (\E tx \in ChainTxs : tx.fn = "addLiquidity") =>
          /\ AllowanceOf(chain, "0xT1") >= 5
          /\ AllowanceOf(chain, "0xT2") >= 7
    /\ \A i \in 1..Len(calls) :
          (calls[i].exited /\ calls[i].returncode = 1) =>
             ~\E tx \in ChainTxs : tx.fn = "addLiquidity"

\* C27: create-wallet and import-private-key never overwrite a keystore file: a
\* file that exists keeps its content in every step, however the children of
\* concurrent requests interleave, and a command that finds the file of its label
\* ends with an error ("Label already exists" for create-wallet) and changes
\* neither the keystore nor .env.
C27_KeystoreNeverOverwritten ==
    [][/\ \A k \in 1..Len(keystore) :
             k <= Len(keystore') /\ keystore'[k] = keystore[k]
       /\ \A i \in 1..Len(calls) :
             (/\ i \notin DOMAIN procs
              /\ HasKey(keystore, "w1")
              /\ ~calls[i].exited /\ calls'[i].exited) =>
                /\ calls'[i].returncode # 0
                /\ keystore' = keystore
                /\ dotenv_file' = dotenv_file
                /\ (/\ calls[i].tool_name = "signer_create-wallet"
                    /\ ~HasKey(calls[i].arguments, "private-key")) =>
                      calls'[i].stdout = Encode(ErrorJson("Label already exists: w1"))]_vars

\* C29: however start-autonomous and stop-autonomous follow and overlap each
\* other, at most one runtime process is alive; and a start-autonomous that finds
\* the process of runtime.pid alive spawns none and returns success false.
C29_AtMostOneRuntime ==
    [][/\ Cardinality({pid \in 1..Len(os_processes') :
                          os_processes'[pid].state # "dead"}) <= 1
       /\ \A i \in 1..Len(calls) :
             (/\ IsChildOf(i, "vibing", "start-autonomous")
              /\ i \notin DOMAIN procs
              /\ pid_file.exists /\ ProcessExists(pid_file.pid)
              /\ calls'[i] # calls[i]) =>
                /\ os_processes' = os_processes
                /\ \/ calls'[i].returncode = 2
                   \/ calls'[i].stdout = Encode(AlreadyRunningJson(pid_file.pid))]_vars

\* C30 as stated: in every state of the runtime active_trades has at most
\* max_trades entries, and no order is placed by a cycle for a symbol that is a
\* key of active_trades.
C30_ActiveTradesWithinMax ==
    runtime.constructed =>
       /\ Len(runtime.active_trades) <= runtime.max_trades
       /\ \A k \in 1..Len(runtime.opened) : ~runtime.opened[k].held

\* C30: in every state of the runtime active_trades has at most max_trades
\* entries, and none when max_trades is negative; its keys are distinct; and no
\* order is placed by a cycle for a symbol that is a key of active_trades.
C30_ActiveTradesWithinLimit ==
    runtime.constructed =>
       /\ Len(runtime.active_trades)
             <= (IF runtime.max_trades > 0 THEN runtime.max_trades ELSE 0)
       /\ Cardinality(Range(runtime.active_trades)) = Len(runtime.active_trades)
       /\ \A k \in 1..Len(runtime.opened) : ~runtime.opened[k].held

\* a cycle with room for MaxTrades trades got a list that starts with one symbol
\* twice: one order was placed and the symbol is held once
C30_Witness ==
    /\ runtime.constructed
    /\ runtime.max_trades = MaxTrades
    /\ Len(runtime.slice) = MaxTrades
    /\ runtime.slice[1] = runtime.slice[2]
    /\ runtime.opened = <<[symbol |-> runtime.slice[1], held |-> FALSE]>>
    /\ runtime.active_trades = <<runtime.slice[1]>>

====
